---------------------------- MODULE Spec2Model ----------------------------
(***************************************************************************)
(* Model of the Bold Protocol ledger and liquidation / redemption engine   *)
(* (src/core): TroveManager, ActivePool, DefaultPool, CollSurplusPool,     *)
(* StabilityPool as wired together by BoldProtocolEconomicModel, and the   *)
(* simplified single-file BoldProtocol of vault_model.py.                  *)
(*                                                                         *)
(* NUMBERS.  The Python code computes with floats: "/" is true division,   *)
(* "//" is floor division and "%" is the float remainder.  Amounts are     *)
(* modelled as exact rationals <<n, d>> (d > 0, lowest terms), so "/" is   *)
(* exact, "//" is RFloorDiv and "%" is RMod; the rounding of the float     *)
(* mantissa itself is not modelled.                                        *)
(*                                                                         *)
(* SCALE.  TLC integers are 32 bit, so the fixed-point constants of the    *)
(* source are scaled down, keeping their relations:                        *)
(*   DECIMAL_PRECISION 1e18 -> 100      (MIN_BOLD_IN_SP, _100pct follow)   *)
(*   P_PRECISION       1e36 -> 10000    (= DECIMAL_PRECISION squared)      *)
(*   SCALE_FACTOR      1e9  -> 10       (= sqrt of DECIMAL_PRECISION)      *)
(*   ONE_YEAR          31536000 s -> 4  (the clock ticks in quarters)      *)
(* Amounts of collateral and debt are in whole tokens, as the callers of   *)
(* the source pass them (economic_model.py, the tests).                    *)
(*                                                                         *)
(* ERRORS.  A Python exception leaves every assignment made before it in   *)
(* place.  Each method is an operator from a machine record m to a machine *)
(* record; m.exc names the exception raised ("none" when none) and the     *)
(* steps after a raise are skipped.                                        *)
(*                                                                         *)
(* CLOCK.  time.time() is the variable now; the simulation clock of        *)
(* BoldProtocolEconomicModel is current_time.  stability_pool.py and       *)
(* active_pool.py use time without importing it; the model reads the clock *)
(* there as trove_manager.py, which imports it, does.                      *)
(***************************************************************************)
EXTENDS Integers, Sequences, FiniteSets, TLC

-----------------------------------------------------------------------------
(* Exact rational arithmetic standing for Python float arithmetic.         *)

RECURSIVE GCD(_, _)
GCD(a, b) == IF b = 0 THEN a ELSE GCD(b, a % b)

Abs(x) == IF x < 0 THEN -x ELSE x

Rat(n, d) ==
    LET s == IF d < 0 THEN -1 ELSE 1
        g == GCD(Abs(n), Abs(d))
    IN  <<(s * n) \div g, (s * d) \div g>>

I(n) == <<n, 1>>
Zero == <<0, 1>>
One == <<1, 1>>
Inf == <<1, 0>>

RAdd(a, b) ==
    LET g == GCD(a[2], b[2])
    IN  Rat(a[1] * (b[2] \div g) + b[1] * (a[2] \div g), (a[2] \div g) * b[2])
RNeg(a) == <<-a[1], a[2]>>
RSub(a, b) == RAdd(a, RNeg(b))
RMul(a, b) ==
    LET g1 == GCD(Abs(a[1]), b[2])
        g2 == GCD(Abs(b[1]), a[2])
    IN  Rat((a[1] \div g1) * (b[1] \div g2), (a[2] \div g2) * (b[2] \div g1))
RDiv(a, b) == RMul(a, IF b[1] < 0 THEN <<-b[2], -b[1]>> ELSE <<b[2], b[1]>>)
(* n1/d1 < n2/d2 for d1, d2 > 0, by comparing the integer parts and then   *)
(* the remainders (no product is formed).                                  *)
RECURSIVE FracLt(_, _, _, _)
FracLt(n1, d1, n2, d2) ==
    LET q1 == n1 \div d1
        q2 == n2 \div d2
        r1 == n1 % d1
        r2 == n2 % d2
    IN  IF q1 # q2 THEN q1 < q2
        ELSE IF r2 = 0 THEN FALSE
        ELSE IF r1 = 0 THEN TRUE
        ELSE FracLt(d2, r2, d1, r1)

RLt(a, b) ==
    IF b = Inf THEN a # Inf
    ELSE IF a = Inf THEN FALSE
    ELSE FracLt(a[1], a[2], b[1], b[2])
RLe(a, b) == a = b \/ RLt(a, b)
RGt(a, b) == RLt(b, a)
RGe(a, b) == RLe(b, a)
RMin(a, b) == IF RLt(b, a) THEN b ELSE a
RMax(a, b) == IF RLt(a, b) THEN b ELSE a
RFloor(a) == I(a[1] \div a[2])
RFloorDiv(a, b) == RFloor(RDiv(a, b))
RMod(a, b) == RSub(a, RMul(b, RFloorDiv(a, b)))
(* x * y / z and x * y // z; the quotient y / z is taken first so that the  *)
(* intermediate product stays within the integers of the checker.         *)
RMulDiv(a, b, c) == RMul(a, RDiv(b, c))
RMulFloorDiv(a, b, c) == RFloor(RMulDiv(a, b, c))
IsInt(a) == a[2] = 1


-----------------------------------------------------------------------------
(* Program constants (scaled as explained above).                          *)

DECIMAL_PRECISION == 100
ONE_YEAR_IN_SECONDS == 4
COLL_GAS_COMPENSATION_DIVISOR == 200
COLL_GAS_COMPENSATION_CAP == I(2 * DECIMAL_PRECISION)
MIN_DEBT == I(2000 * DECIMAL_PRECISION)
MCR == Rat(11, 10)
LIQUIDATION_PENALTY_SP == Rat(5, 100)
LIQUIDATION_PENALTY_REDISTRIBUTION == Rat(10, 100)
URGENT_REDEMPTION_BONUS == Rat(DECIMAL_PRECISION, 100)
REDEMPTION_RATE == Rat(5 * DECIMAL_PRECISION, 1000)
SP_YIELD_SPLIT == Rat(DECIMAL_PRECISION, 2)
MIN_BOLD_IN_SP == I(DECIMAL_PRECISION)
P_PRECISION == 10000
SCALE_FACTOR == 10
MAX_SCALE_FACTOR_EXPONENT == 8
SCALE_SPAN == 2
MIN_ANNUAL_INTEREST_RATE == Rat(5, 1000)
MAX_ANNUAL_INTEREST_RATE == Rat(250, 100)
MAX_MANAGEMENT_FEE == Rat(10, 100)
BCR_ALL == Rat(10, 100)
DP == I(DECIMAL_PRECISION)
NoBatch == "None"

-----------------------------------------------------------------------------
(* Bounds of the model and the inputs the environment draws from.          *)

MaxTroves == 2
MaxTime == 2
MaxCalls == 5
MaxSteps == 3
MaxDenominator == 100

TroveIds == 1..MaxTroves
Accounts == {"a"}
Managers == {"mgr"}
OpenColls == {I(2), I(3)}
OpenDebts == {I(2000)}
OpenRates == {Rat(5, 2)}
BatchRates == {Rat(5, 2)}
BatchFees == {Rat(25, 1000)}
Prices == {I(2000), I(1000), I(2000 * DECIMAL_PRECISION)}
TopUps == {I(600), I(2500)}
Withdrawals == {I(500), I(2500)}
RedeemAmounts == {I(1000)}
MinCollaterals == {Zero, I(5)}
TroveArrays ==
    {<<i>> : i \in TroveIds} \cup {<<p[1], p[2]>> : p \in {q \in TroveIds \X TroveIds : q[1] <= q[2]}}

-----------------------------------------------------------------------------
(* State.                                                                  *)

VARIABLES
    troves,             \* TroveManager.troves: id -> Trove
    batches,            \* TroveManager.batches: manager -> Batch
    reward_snapshots,   \* TroveManager.reward_snapshots: id -> RewardSnapshot
    trove_ids,          \* TroveManager.trove_ids (the ordered list)
    trove_manager,      \* the scalar fields of TroveManager
    active_pool,        \* ActivePool
    default_pool,       \* DefaultPool
    coll_surplus_pool,  \* CollSurplusPool
    stability_pool,     \* StabilityPool
    bold_token,         \* BoldToken.balances[stability pool]
    price_feed,         \* PriceFeed.price
    next_trove_id,      \* BoldProtocolEconomicModel.next_trove_id
    now,                \* time.time(), the wall clock
    current_time,       \* BoldProtocolEconomicModel.current_time
    paid,               \* collateral that crossed the system boundary
    program,            \* which of the two programs this run constructed
    protocol,           \* the BoldProtocol object of vault_model.py
    calls,              \* number of calls made so far (bounds the run)
    last                \* the last call: its name, arguments, error and results

vars == <<troves, batches, reward_snapshots, trove_ids, trove_manager,
          active_pool, default_pool, coll_surplus_pool, stability_pool,
          bold_token, price_feed, next_trove_id, now, current_time, paid,
          program, protocol, calls, last>>

(* The machine record the methods work on. *)
Machine ==
    [troves |-> troves, batches |-> batches, reward_snapshots |-> reward_snapshots,
     trove_ids |-> trove_ids, tm |-> trove_manager, ap |-> active_pool,
     dp |-> default_pool, csp |-> coll_surplus_pool, sp |-> stability_pool,
     token |-> bold_token, price |-> price_feed, now |-> now,
     current_time |-> current_time, next_trove_id |-> next_trove_id,
     paid |-> paid, exc |-> "none"]

(* Statements run in sequence: each operation takes the machine as the     *)
(* statement before it left it, and does nothing once an exception is      *)
(* raised.                                                                 *)
Raise(m, e) == [m EXCEPT !.exc = e]
Ok(m) == m.exc = "none"

-----------------------------------------------------------------------------
(* ActivePool, DefaultPool, CollSurplusPool: balance transfers.            *)

ap_send_coll(m, amount) ==
    IF ~Ok(m) THEN m
    ELSE IF RLe(amount, Zero) \/ RGt(amount, m.ap.coll_balance)
    THEN Raise(m, "ValueError")
    ELSE [m EXCEPT !.ap.coll_balance = RSub(@, amount)]

ap_receive_coll(m, amount) ==
    IF ~Ok(m) THEN m
    ELSE IF RLe(amount, Zero) THEN Raise(m, "ValueError")
    ELSE [m EXCEPT !.ap.coll_balance = RAdd(@, amount)]

dp_receive_coll(m, amount) ==
    IF ~Ok(m) THEN m
    ELSE IF RLe(amount, Zero) THEN Raise(m, "ValueError")
    ELSE [m EXCEPT !.dp.coll_balance = RAdd(@, amount)]

ap_send_coll_to_default_pool(m, amount) ==
    IF ~Ok(m) THEN m
    ELSE IF RLe(amount, Zero) \/ RGt(amount, m.ap.coll_balance)
    THEN Raise(m, "ValueError")
    ELSE dp_receive_coll([m EXCEPT !.ap.coll_balance = RSub(@, amount)], amount)

(* DefaultPool.send_coll_to_active_pool without the check against the      *)
(* pool's balance.                                                         *)
dp_send_coll_unchecked(m, amount) ==
    IF ~Ok(m) THEN m
    ELSE IF RLe(amount, Zero) THEN Raise(m, "ValueError")
    ELSE ap_receive_coll([m EXCEPT !.dp.coll_balance = RSub(@, amount)], amount)

dp_send_coll_to_active_pool(m, amount) ==
    IF ~Ok(m) THEN m
    ELSE IF RLe(amount, Zero) \/ RGt(amount, m.dp.coll_balance)
    THEN Raise(m, "ValueError")
    ELSE ap_receive_coll([m EXCEPT !.dp.coll_balance = RSub(@, amount)], amount)

dp_increase_bold_debt(m, amount) ==
    IF ~Ok(m) THEN m
    ELSE IF RLe(amount, Zero) THEN Raise(m, "ValueError")
    ELSE [m EXCEPT !.dp.bold_debt = RAdd(@, amount)]

dp_decrease_bold_debt(m, amount) ==
    IF ~Ok(m) THEN m
    ELSE IF RLe(amount, Zero) \/ RGt(amount, m.dp.bold_debt)
    THEN Raise(m, "ValueError")
    ELSE [m EXCEPT !.dp.bold_debt = RSub(@, amount)]

account_surplus(m, account, amount) ==
    IF ~Ok(m) THEN m
    ELSE IF RLe(amount, Zero) THEN Raise(m, "ValueError")
    ELSE [m EXCEPT !.csp.balances[account] = RAdd(@, amount),
                   !.csp.coll_balance = RAdd(@, amount)]

(* claim_coll leaving the pool's total as it was. *)
claim_coll_keeping_total(m, account) ==
    IF ~Ok(m) THEN m
    ELSE IF RLe(m.csp.balances[account], Zero) THEN Raise(m, "ValueError")
    ELSE [m EXCEPT !.csp.balances[account] = Zero,
                   !.paid.out = RAdd(@, m.csp.balances[account])]

(* CollSurplusPool.claim_coll: the collateral leaves the system. *)
claim_coll(m, account) ==
    IF ~Ok(m) THEN m
    ELSE IF RLe(m.csp.balances[account], Zero) THEN Raise(m, "ValueError")
    ELSE [m EXCEPT !.csp.balances[account] = Zero,
                   !.csp.coll_balance = RSub(@, m.csp.balances[account]),
                   !.paid.out = RAdd(@, m.csp.balances[account])]

(* BoldToken.transfer / mint / burn on the balances map (a missing key     *)
(* reads as 0).  The balances of the interest router and of the batch      *)
(* managers only ever grow and are never read: they are not kept.          *)
token_transfer(m, sender, recipient, amount) ==
    IF ~Ok(m) THEN m
    ELSE IF RLe(amount, Zero) \/ RLt(m.token[sender], amount)
    THEN Raise(m, "ValueError")
    ELSE [m EXCEPT !.token[sender] = RSub(@, amount),
                   !.token[recipient] = RAdd(@, amount)]

token_mint(m, recipient, amount) ==
    IF ~Ok(m) THEN m
    ELSE IF RLe(amount, Zero) THEN Raise(m, "ValueError")
    ELSE IF recipient \notin DOMAIN m.token THEN m
    ELSE [m EXCEPT !.token[recipient] = RAdd(@, amount)]

token_burn(m, from_account, amount) ==
    IF ~Ok(m) THEN m
    ELSE IF RLe(amount, Zero) \/ RLt(m.token[from_account], amount)
    THEN Raise(m, "ValueError")
    ELSE [m EXCEPT !.token[from_account] = RSub(@, amount)]


-----------------------------------------------------------------------------
(* TroveManager: read-only helpers.                                        *)

_is_active_or_zombie(status) == status = "ACTIVE" \/ status = "ZOMBIE"

_get_batch_manager(m, trove_id) ==
    IF trove_id \notin DOMAIN m.troves THEN NoBatch
    ELSE m.troves[trove_id].interest_batch_manager

_get_trove_owner(trove_id) == <<"owner", trove_id>>

(* _get_interest_period reading the clock whether or not the system is     *)
(* shut down.                                                              *)
interest_period_ignoring_shutdown(m, last_update_time) ==
    IF m.now - last_update_time > 0 THEN m.now - last_update_time ELSE 0

_get_interest_period(m, last_update_time) ==
    LET t == IF m.tm.shutdown_time # 0
             THEN (IF m.now < m.tm.shutdown_time THEN m.now ELSE m.tm.shutdown_time)
             ELSE m.now
    IN  IF t - last_update_time > 0 THEN t - last_update_time ELSE 0

_calc_interest(weighted_debt, period) ==
    IF period = 0 THEN Zero
    ELSE RMulFloorDiv(weighted_debt, I(period),
                   I(ONE_YEAR_IN_SECONDS * DECIMAL_PRECISION))

_get_latest_batch_data(m, batch_address) ==
    LET b == m.batches[batch_address]
        period == _get_interest_period(m, b.last_debt_update_time)
        weighted == RMul(b.debt, b.annual_interest_rate)
        weighted_fee == RMul(b.debt, b.annual_management_fee)
        interest == _calc_interest(weighted, period)
    IN  [recorded_debt |-> b.debt,
         annual_interest_rate |-> b.annual_interest_rate,
         annual_management_fee |-> b.annual_management_fee,
         weighted_recorded_debt |-> weighted,
         weighted_recorded_batch_management_fee |-> weighted_fee,
         accured_interest |-> interest,
         accured_management_fee |-> _calc_interest(weighted_fee, period),
         entire_debt_without_redistribution |-> RAdd(b.debt, interest),
         entire_coll_without_redistribution |-> b.coll]

_get_latest_trove_data_from_batch(m, trove_id, batch_address, batch) ==
    LET t == m.troves[trove_id]
        shares == t.batch_debt_shares
        total == m.batches[batch_address].total_debt_shares
        snapshot == m.reward_snapshots[trove_id]
        debt_gain == RMulDiv(t.stake, RSub(m.tm.L_bold_debt, snapshot.bold_debt), DP)
        coll_gain == RMulDiv(t.stake, RSub(m.tm.L_coll, snapshot.coll), DP)
        pro_rata(x) == RMulDiv(x, shares, total)
        has == RGt(total, Zero)
        recorded == IF has THEN pro_rata(batch.recorded_debt) ELSE Zero
        interest == IF has THEN pro_rata(batch.accured_interest) ELSE Zero
        fee == IF has THEN pro_rata(batch.accured_management_fee) ELSE Zero
    IN  [redist_bold_debt_gain |-> debt_gain,
         redist_coll_gain |-> coll_gain,
         recorded_debt |-> recorded,
         annual_interest_rate |-> batch.annual_interest_rate,
         weighted_recorded_debt |->
             IF has THEN RMul(recorded, batch.annual_interest_rate) ELSE Zero,
         accrued_interest |-> interest,
         accrued_batch_management_fee |-> fee,
         entire_debt |-> RAdd(RAdd(recorded, debt_gain), RAdd(interest, fee)),
         entire_coll |-> RAdd(t.coll, coll_gain)]

(* The caller has checked that trove_id is a key of troves. *)
_get_latest_trove_data(m, trove_id) ==
    LET t == m.troves[trove_id]
        batch_address == _get_batch_manager(m, trove_id)
        snapshot == m.reward_snapshots[trove_id]
        debt_gain == RMulDiv(t.stake, RSub(m.tm.L_bold_debt, snapshot.bold_debt), DP)
        coll_gain == RMulDiv(t.stake, RSub(m.tm.L_coll, snapshot.coll), DP)
        weighted == RMul(t.debt, t.annual_interest_rate)
        interest == _calc_interest(weighted,
                                   _get_interest_period(m, t.last_debt_update_time))
    IN  IF batch_address # NoBatch
        THEN _get_latest_trove_data_from_batch(m, trove_id, batch_address,
                 _get_latest_batch_data(m, batch_address))
        ELSE [redist_bold_debt_gain |-> debt_gain,
              redist_coll_gain |-> coll_gain,
              recorded_debt |-> t.debt,
              annual_interest_rate |-> t.annual_interest_rate,
              weighted_recorded_debt |-> weighted,
              accrued_interest |-> interest,
              accrued_batch_management_fee |-> Zero,
              entire_debt |-> RAdd(RAdd(t.debt, debt_gain), interest),
              entire_coll |-> RAdd(t.coll, coll_gain)]

_get_current_icr_of(trove, price) ==
    IF trove.entire_debt = Zero THEN Inf
    ELSE RMulDiv(trove.entire_coll, price, trove.entire_debt)

get_current_icr(m, trove_id, price) ==
    _get_current_icr_of(_get_latest_trove_data(m, trove_id), price)


-----------------------------------------------------------------------------
(* ActivePool: interest.                                                   *)

calc_pending_agg_interest(m, t) ==
    LET time_passed == t - m.ap.last_agg_update_time
        product == RMul(m.ap.agg_weighted_debt_sum, I(time_passed))
        year == I(ONE_YEAR_IN_SECONDS * DECIMAL_PRECISION)
        interest == RDiv(product, year)
    IN  IF m.ap.shutdown_time # 0 THEN Zero
        ELSE IF time_passed = 0 THEN Zero
        ELSE IF RGt(RMod(product, year), Zero) THEN RAdd(interest, One)
        ELSE interest

calc_pending_agg_batch_management_fee(m, t) ==
    LET period_end == IF m.ap.shutdown_time # 0 THEN m.ap.shutdown_time ELSE t
        last_update == m.ap.last_agg_batch_management_fees_update_time
        period_start == IF last_update < period_end THEN last_update ELSE period_end
        product == RMul(m.ap.agg_weighted_batch_management_fee_sum,
                        I(period_end - period_start))
        year == I(ONE_YEAR_IN_SECONDS * DECIMAL_PRECISION)
        fee == RFloorDiv(product, year)
    IN  IF period_end = period_start THEN Zero
        ELSE IF RGt(RMod(product, year), Zero) THEN RAdd(fee, One)
        ELSE fee

get_bold_debt(m, t) ==
    RAdd(RAdd(m.ap.agg_recorded_debt, calc_pending_agg_interest(m, t)),
         RAdd(m.ap.agg_batch_management_fees,
              calc_pending_agg_batch_management_fee(m, t)))

(* _update_yield_rewards_sum distributing only the new yield once the pool *)
(* is above the floor: what was pending is dropped.                        *)
update_yield_dropping_pending(m, new_yield) ==
    LET accumulated == RAdd(m.sp.yield_gains_pending, new_yield)
    IN  IF ~Ok(m) THEN m
        ELSE IF accumulated = Zero THEN m
        ELSE IF RLt(m.sp.total_bold_deposits, MIN_BOLD_IN_SP)
        THEN [m EXCEPT !.sp.yield_gains_pending = accumulated]
        ELSE [m EXCEPT !.sp.yield_gains_owed = RAdd(@, new_yield),
                       !.sp.yield_gains_pending = Zero,
                       !.sp.scale_to_B[m.sp.current_scale] =
                           RAdd(@, RMulFloorDiv(m.sp.P, new_yield,
                                             m.sp.total_bold_deposits))]

(* StabilityPool._update_yield_rewards_sum *)
_update_yield_rewards_sum(m, new_yield) ==
    LET accumulated == RAdd(m.sp.yield_gains_pending, new_yield)
    IN  IF ~Ok(m) THEN m
        ELSE IF accumulated = Zero THEN m
        ELSE IF RLt(m.sp.total_bold_deposits, MIN_BOLD_IN_SP)
        THEN [m EXCEPT !.sp.yield_gains_pending = accumulated]
        ELSE [m EXCEPT !.sp.yield_gains_owed = RAdd(@, accumulated),
                       !.sp.yield_gains_pending = Zero,
                       !.sp.scale_to_B[m.sp.current_scale] =
                           RAdd(@, RMulFloorDiv(m.sp.P, accumulated,
                                             m.sp.total_bold_deposits))]

trigger_bold_rewards(m, bold_yield) == _update_yield_rewards_sum(m, bold_yield)

(* The amount mint_agg_interest returns. *)
minted_amount(m, t, upfront_fee) == RAdd(calc_pending_agg_interest(m, t), upfront_fee)

(* The body of "if minted_amount > 0": the two mints and the trigger. *)
mint_interest_split(m, minted, sp_yield) ==
    IF RGt(sp_yield, Zero)
    THEN trigger_bold_rewards(
             token_mint(token_mint(m, "interest_router", RSub(minted, sp_yield)),
                        "stability_pool", sp_yield),
             sp_yield)
    ELSE token_mint(m, "interest_router", RSub(minted, sp_yield))

set_last_agg_update_time(m, t) ==
    IF ~Ok(m) THEN m ELSE [m EXCEPT !.ap.last_agg_update_time = t]

mint_minted_amount(m, t, minted) ==
    IF RGt(minted, Zero)
    THEN set_last_agg_update_time(
             mint_interest_split(m, minted, RMulFloorDiv(SP_YIELD_SPLIT, minted, DP)), t)
    ELSE set_last_agg_update_time(m, t)

mint_agg_interest(m, t, upfront_fee) ==
    IF ~Ok(m) THEN m
    ELSE mint_minted_amount(m, t, minted_amount(m, t, upfront_fee))

(* mint_batch_management_fee after its first statement, with pending_fee   *)
(* computed on the machine that statement left.                            *)
mint_batch_fee_account(m, t, batch_accrued_fee, old_weighted, new_weighted, pending_fee) ==
    [m EXCEPT !.ap.agg_batch_management_fees =
                  RSub(RAdd(@, pending_fee), batch_accrued_fee),
              !.ap.agg_weighted_batch_management_fee_sum =
                  RSub(RAdd(@, new_weighted), old_weighted)]

set_last_agg_batch_management_fees_update_time(m, t) ==
    IF ~Ok(m) THEN m
    ELSE [m EXCEPT !.ap.last_agg_batch_management_fees_update_time = t]

mint_batch_fee_pending(m, t, batch_accrued_fee, old_weighted, new_weighted, batch_address) ==
    set_last_agg_batch_management_fees_update_time(
        IF RGt(batch_accrued_fee, Zero)
        THEN token_mint(mint_batch_fee_account(m, t, batch_accrued_fee, old_weighted,
                            new_weighted, calc_pending_agg_batch_management_fee(m, t)),
                        batch_address, batch_accrued_fee)
        ELSE mint_batch_fee_account(m, t, batch_accrued_fee, old_weighted,
                 new_weighted, calc_pending_agg_batch_management_fee(m, t)),
        t)

mint_batch_management_fee(m, t, batch_accrued_fee, old_weighted, new_weighted, batch_address) ==
    IF ~Ok(m) THEN m
    ELSE mint_batch_fee_pending(
             [m EXCEPT !.ap.agg_recorded_debt = RAdd(@, batch_accrued_fee)],
             t, batch_accrued_fee, old_weighted, new_weighted, batch_address)


-----------------------------------------------------------------------------
(* StabilityPool.                                                          *)

RECURSIVE Pow(_, _)
Pow(b, e) == IF e = 0 THEN 1 ELSE b * Pow(b, e - 1)

(* The loop "for i in range(1, SCALE_SPAN + 1)" of the two gain getters. *)
RECURSIVE later_scale_gains(_, _, _)
later_scale_gains(acc, scale, i) ==
    IF i > SCALE_SPAN THEN Zero
    ELSE RAdd(IF scale + i \in DOMAIN acc
              THEN RFloorDiv(acc[scale + i], I(Pow(SCALE_FACTOR, i)))
              ELSE Zero,
              later_scale_gains(acc, scale, i + 1))

get_depositor_coll_gain(m, depositor) ==
    LET initial_deposit == m.sp.deposits[depositor]
        snapshots == m.sp.deposit_snapshots[depositor]
        same_scale == IF snapshots.scale \in DOMAIN m.sp.scale_to_S
                      THEN m.sp.scale_to_S[snapshots.scale] ELSE Zero
        normalized_gains == RAdd(RSub(same_scale, snapshots.S),
                                 later_scale_gains(m.sp.scale_to_S, snapshots.scale, 1))
        coll_gain == RMulFloorDiv(initial_deposit, normalized_gains, snapshots.P)
    IN  IF initial_deposit = Zero THEN Zero
        ELSE RMin(coll_gain, m.sp.coll_balance)

get_depositor_yield_gain(m, depositor) ==
    LET initial_deposit == m.sp.deposits[depositor]
        snapshots == m.sp.deposit_snapshots[depositor]
        same_scale == IF snapshots.scale \in DOMAIN m.sp.scale_to_B
                      THEN m.sp.scale_to_B[snapshots.scale] ELSE Zero
        normalized_gains == RAdd(RSub(same_scale, snapshots.B),
                                 later_scale_gains(m.sp.scale_to_B, snapshots.scale, 1))
        yield_gain == RMulFloorDiv(initial_deposit, normalized_gains, snapshots.P)
    IN  IF initial_deposit = Zero THEN Zero
        ELSE RMin(yield_gain, m.sp.yield_gains_owed)

(* A faulty get_compounded_bold_deposit: the deposit is rounded to 0 from  *)
(* a scale difference of MAX_SCALE_FACTOR_EXPONENT on, one scale early.    *)
compounded_deposit_cut_early(m, depositor) ==
    LET initial_deposit == m.sp.deposits[depositor]
        snapshots == m.sp.deposit_snapshots[depositor]
        scale_diff == m.sp.current_scale - snapshots.scale
        compounded == RMulFloorDiv(initial_deposit, m.sp.P, snapshots.P)
    IN  IF initial_deposit = Zero THEN Zero
        ELSE IF scale_diff >= MAX_SCALE_FACTOR_EXPONENT THEN Zero
        ELSE IF scale_diff > 0
        THEN RFloorDiv(compounded, I(Pow(SCALE_FACTOR, scale_diff)))
        ELSE compounded

get_compounded_bold_deposit(m, depositor) ==
    LET initial_deposit == m.sp.deposits[depositor]
        snapshots == m.sp.deposit_snapshots[depositor]
        scale_diff == m.sp.current_scale - snapshots.scale
        compounded == RMulFloorDiv(initial_deposit, m.sp.P, snapshots.P)
    IN  IF initial_deposit = Zero THEN Zero
        ELSE IF scale_diff > MAX_SCALE_FACTOR_EXPONENT THEN Zero
        ELSE IF scale_diff > 0
        THEN RFloorDiv(compounded, I(Pow(SCALE_FACTOR, scale_diff)))
        ELSE compounded

NoSnapshots == [S |-> Zero, P |-> I(P_PRECISION), B |-> Zero, scale |-> 0]

_update_deposit_and_snapshots(m, depositor, new_deposit, new_stashed_coll) ==
    IF ~Ok(m) THEN m
    ELSE IF new_deposit = Zero
    THEN [m EXCEPT !.sp.deposits[depositor] = new_deposit,
                   !.sp.stashed_coll[depositor] = new_stashed_coll,
                   !.sp.deposit_snapshots[depositor] = NoSnapshots]
    ELSE [m EXCEPT !.sp.deposits[depositor] = new_deposit,
                   !.sp.stashed_coll[depositor] = new_stashed_coll,
                   !.sp.deposit_snapshots[depositor] =
                       [S |-> m.sp.scale_to_S[m.sp.current_scale],
                        P |-> m.sp.P,
                        B |-> m.sp.scale_to_B[m.sp.current_scale],
                        scale |-> m.sp.current_scale]]

_update_total_bold_deposits(m, deposit_increase, deposit_decrease) ==
    IF ~Ok(m) THEN m
    ELSE IF deposit_increase = Zero /\ deposit_decrease = Zero THEN m
    ELSE [m EXCEPT !.sp.total_bold_deposits =
             RSub(RAdd(@, deposit_increase), deposit_decrease)]

_decrease_yield_gains_owed(m, amount) ==
    IF ~Ok(m) THEN m
    ELSE IF amount = Zero THEN m
    ELSE [m EXCEPT !.sp.yield_gains_owed = RSub(@, amount)]

(* The collateral leaves the system: the ledger of payments records it. *)
(* A faulty _send_coll_gain_to_depositor: the gain is paid out but stays   *)
(* on the pool's balance.                                                  *)
send_coll_gain_unbooked(m, depositor, coll_amount) ==
    IF ~Ok(m) THEN m
    ELSE IF coll_amount = Zero THEN m
    ELSE [m EXCEPT !.paid.out = RAdd(@, coll_amount)]

_send_coll_gain_to_depositor(m, depositor, coll_amount) ==
    IF ~Ok(m) THEN m
    ELSE IF coll_amount = Zero THEN m
    ELSE [m EXCEPT !.sp.coll_balance = RSub(@, coll_amount),
                   !.paid.out = RAdd(@, coll_amount)]

_send_bold_to_depositor(m, depositor, bold_amount) ==
    IF ~Ok(m) THEN m
    ELSE IF bold_amount = Zero THEN m
    ELSE token_transfer(m, "stability_pool", depositor, bold_amount)

(* BoldToken has no transfer_to_pool; what provide_to_sp needs of it is     *)
(* what send_to_pool does.                                                  *)
transfer_to_pool(m, sender, amount) ==
    token_transfer(m, sender, "stability_pool", amount)


(* "if yield_gain_to_send > 0: self._send_bold_to_depositor(...)" and      *)
(* "if coll_to_send > 0: self._send_coll_gain_to_depositor(...)".          *)
send_bold_when(m, condition, depositor, bold_amount) ==
    IF condition THEN _send_bold_to_depositor(m, depositor, bold_amount) ELSE m

send_coll_gain_when_positive(m, depositor, coll_amount) ==
    IF RGt(coll_amount, Zero)
    THEN _send_coll_gain_to_depositor(m, depositor, coll_amount) ELSE m

(* provide_to_sp from "if do_claim" on, the three values read before it    *)
(* being given; stash is stashed_coll[depositor] + current_coll_gain.      *)
provide_to_sp_update(m, depositor, top_up_amount, do_claim, stash, current_yield_gain, compounded_bold_deposit) ==
    LET kept_yield_gain == IF do_claim THEN Zero ELSE current_yield_gain
        yield_gain_to_send == IF do_claim THEN current_yield_gain ELSE Zero
    IN  _update_yield_rewards_sum(
          send_coll_gain_when_positive(
            send_bold_when(
              _decrease_yield_gains_owed(
                _update_total_bold_deposits(
                  transfer_to_pool(
                    _update_deposit_and_snapshots(m, depositor,
                        RAdd(RAdd(compounded_bold_deposit, top_up_amount), kept_yield_gain),
                        IF do_claim THEN Zero ELSE stash),
                    depositor, top_up_amount),
                  RAdd(top_up_amount, kept_yield_gain), Zero),
                current_yield_gain),
              RGt(yield_gain_to_send, Zero), depositor, yield_gain_to_send),
            depositor, IF do_claim THEN stash ELSE Zero),
          Zero)

provide_to_sp_minted(m, depositor, top_up_amount, do_claim) ==
    IF ~Ok(m) THEN m
    ELSE provide_to_sp_update(m, depositor, top_up_amount, do_claim,
             RAdd(m.sp.stashed_coll[depositor], get_depositor_coll_gain(m, depositor)),
             get_depositor_yield_gain(m, depositor),
             get_compounded_bold_deposit(m, depositor))

provide_to_sp(m, depositor, top_up_amount, do_claim) ==
    IF ~Ok(m) THEN m
    ELSE IF RLe(top_up_amount, Zero) THEN Raise(m, "ValueError")
    ELSE provide_to_sp_minted(mint_agg_interest(m, m.now, Zero),
                              depositor, top_up_amount, do_claim)

(* "if self.total_bold_deposits < self.MIN_BOLD_IN_SP: raise", the last    *)
(* statement of withdraw_from_sp.                                          *)
withdraw_from_sp_floor(m) ==
    IF Ok(m) /\ RLt(m.sp.total_bold_deposits, MIN_BOLD_IN_SP)
    THEN Raise(m, "ValueError") ELSE m

withdraw_from_sp_update(m, depositor, bold_to_withdraw, do_claim, stash, current_yield_gain, compounded_bold_deposit) ==
    LET kept_yield_gain == IF do_claim THEN Zero ELSE current_yield_gain
        yield_gain_to_send == IF do_claim THEN current_yield_gain ELSE Zero
    IN  withdraw_from_sp_floor(
          send_coll_gain_when_positive(
            send_bold_when(
              _update_total_bold_deposits(
                _decrease_yield_gains_owed(
                  _update_deposit_and_snapshots(m, depositor,
                      RAdd(RSub(compounded_bold_deposit, bold_to_withdraw), kept_yield_gain),
                      IF do_claim THEN Zero ELSE stash),
                  current_yield_gain),
                kept_yield_gain, bold_to_withdraw),
              RGt(bold_to_withdraw, Zero) \/ RGt(yield_gain_to_send, Zero),
              depositor, RAdd(bold_to_withdraw, yield_gain_to_send)),
            depositor, IF do_claim THEN stash ELSE Zero))

withdraw_from_sp_amount(m, depositor, amount, do_claim, compounded_bold_deposit) ==
    withdraw_from_sp_update(m, depositor, RMin(amount, compounded_bold_deposit), do_claim,
        RAdd(m.sp.stashed_coll[depositor], get_depositor_coll_gain(m, depositor)),
        get_depositor_yield_gain(m, depositor),
        compounded_bold_deposit)

withdraw_from_sp_minted(m, depositor, amount, do_claim) ==
    IF ~Ok(m) THEN m
    ELSE withdraw_from_sp_amount(m, depositor, amount, do_claim,
                                 get_compounded_bold_deposit(m, depositor))

withdraw_from_sp(m, depositor, amount, do_claim) ==
    IF ~Ok(m) THEN m
    ELSE IF RLe(m.sp.deposits[depositor], Zero) THEN Raise(m, "ValueError")
    ELSE withdraw_from_sp_minted(mint_agg_interest(m, m.now, Zero),
                                 depositor, amount, do_claim)

claim_all_coll_gains_minted(m, depositor) ==
    IF ~Ok(m) THEN m
    ELSE IF RLe(m.sp.stashed_coll[depositor], Zero) THEN Raise(m, "ValueError")
    ELSE _send_coll_gain_to_depositor(
             [m EXCEPT !.sp.stashed_coll[depositor] = Zero],
             depositor, m.sp.stashed_coll[depositor])

claim_all_coll_gains(m, depositor) ==
    IF ~Ok(m) THEN m
    ELSE IF RGt(m.sp.deposits[depositor], Zero) THEN Raise(m, "ValueError")
    ELSE claim_all_coll_gains_minted(mint_agg_interest(m, m.now, Zero), depositor)

(* The rescaling of offset as a single "if": at most one multiplication. *)
rescale_at_most_once(numerator, total, steps) ==
    LET new_P == RFloorDiv(numerator, total)
    IN  IF RLt(new_P, RFloorDiv(I(P_PRECISION), I(SCALE_FACTOR)))
        THEN [P |-> RFloorDiv(RMul(numerator, I(SCALE_FACTOR)), total),
              steps |-> steps + 1]
        ELSE [P |-> new_P, steps |-> steps]

(* The rescaling loop of offset: the new P and the number of scale steps. *)
RECURSIVE rescale(_, _, _)
rescale(numerator, total, steps) ==
    LET new_P == RFloorDiv(numerator, total)
    IN  IF RLt(new_P, RFloorDiv(I(P_PRECISION), I(SCALE_FACTOR)))
        THEN rescale(RMul(numerator, I(SCALE_FACTOR)), total, steps + 1)
        ELSE [P |-> new_P, steps |-> steps]

sp_receive_offset_coll(m, coll_to_add) ==
    IF ~Ok(m) THEN m ELSE [m EXCEPT !.sp.coll_balance = RAdd(@, coll_to_add)]

_move_offset_coll_and_debt(m, coll_to_add, debt_to_offset) ==
    ap_send_coll(
        sp_receive_offset_coll(
            token_burn(_update_total_bold_deposits(m, Zero, debt_to_offset),
                       "stability_pool", debt_to_offset),
            coll_to_add),
        coll_to_add)

(* The scale_to_S / scale_to_B maps with a zero entry for every new scale. *)
grown_scales(acc, new_scale) ==
    [i \in 0..new_scale |-> IF i \in DOMAIN acc THEN acc[i] ELSE Zero]

(* offset once the rescaling loop has produced the new P and scale count. *)
offset_rescaled(m, debt_to_offset, coll_to_add, r) ==
    _move_offset_coll_and_debt(
        [m EXCEPT !.sp.P = r.P,
                  !.sp.current_scale = @ + r.steps,
                  !.sp.scale_to_S = grown_scales(@, m.sp.current_scale + r.steps),
                  !.sp.scale_to_B = grown_scales(@, m.sp.current_scale + r.steps)],
        coll_to_add, debt_to_offset)

(* offset after "scale_to_S[current_scale] += ...", numerator being        *)
(* P * (total_bold_deposits - debt_to_offset).                             *)
offset_new_P(m, debt_to_offset, coll_to_add, numerator) ==
    IF RLe(RFloorDiv(numerator, m.sp.total_bold_deposits), Zero)
    THEN Raise(m, "ValueError")
    ELSE offset_rescaled(m, debt_to_offset, coll_to_add,
                         rescale(numerator, m.sp.total_bold_deposits, 0))

offset(m, debt_to_offset, coll_to_add) ==
    IF ~Ok(m) THEN m
    ELSE IF m.sp.total_bold_deposits = Zero THEN Raise(m, "ZeroDivisionError")
    ELSE offset_new_P(
             [m EXCEPT !.sp.scale_to_S[m.sp.current_scale] =
                 RAdd(@, RMulFloorDiv(m.sp.P, coll_to_add, m.sp.total_bold_deposits))],
             debt_to_offset, coll_to_add,
             RMul(m.sp.P, RSub(m.sp.total_bold_deposits, debt_to_offset)))


-----------------------------------------------------------------------------
(* ActivePool.mint_agg_interest_and_account_for_trove_change is called by  *)
(* TroveManager but is not defined in active_pool.py.  It is modelled as   *)
(* the component design describes the engine's aggregate updates: mint the *)
(* pending interest, then "subtract old, add new" on the aggregate debt    *)
(* and on the weighted sum.                                                *)

NoChange ==
    [coll_decrease |-> Zero, debt_increase |-> Zero, debt_decrease |-> Zero,
     upfront_fee |-> Zero, applied_redist_coll_gain |-> Zero,
     applied_redist_bold_debt_gain |-> Zero,
     old_weighted_recorded_debt |-> Zero, new_weighted_recorded_debt |-> Zero,
     batch_accrued_management_fee |-> Zero,
     old_weighted_recorded_batch_management_fee |-> Zero,
     new_weighted_recorded_batch_management_fee |-> Zero]

account_for_trove_change(m, trove_change, minted) ==
    IF ~Ok(m) THEN m
    ELSE [m EXCEPT
            !.ap.agg_recorded_debt =
                RSub(RAdd(RAdd(@, minted),
                          RAdd(trove_change.applied_redist_bold_debt_gain,
                               trove_change.debt_increase)),
                     trove_change.debt_decrease),
            !.ap.agg_weighted_debt_sum =
                RSub(RAdd(@, trove_change.new_weighted_recorded_debt),
                     trove_change.old_weighted_recorded_debt)]

mint_and_account(m, trove_change) ==
    IF ~Ok(m) THEN m
    ELSE account_for_trove_change(
             mint_agg_interest(m, m.now, trove_change.upfront_fee),
             trove_change,
             minted_amount(m, m.now, trove_change.upfront_fee))

mint_agg_interest_and_account_for_trove_change(m, trove_change, batch_address) ==
    IF ~Ok(m) THEN m
    ELSE IF batch_address # NoBatch
    THEN mint_and_account(
             mint_batch_management_fee(m, m.now,
                 trove_change.batch_accrued_management_fee,
                 trove_change.old_weighted_recorded_batch_management_fee,
                 trove_change.new_weighted_recorded_batch_management_fee,
                 batch_address),
             trove_change)
    ELSE mint_and_account(m, trove_change)

-----------------------------------------------------------------------------
(* TroveManager: liquidation.                                              *)

_get_coll_gas_compensation(entire_coll) ==
    RMin(RDiv(entire_coll, I(COLL_GAS_COMPENSATION_DIVISOR)), COLL_GAS_COMPENSATION_CAP)

_get_coll_penalty_and_surplus(coll_to_liquidate, debt_to_liquidate, penalty_ratio, price) ==
    LET max_seized_coll == RMulDiv(debt_to_liquidate, RAdd(DP, penalty_ratio), price)
    IN  IF RGt(coll_to_liquidate, max_seized_coll)
        THEN [seized_coll |-> max_seized_coll,
              coll_surplus |-> RSub(coll_to_liquidate, max_seized_coll)]
        ELSE [seized_coll |-> coll_to_liquidate, coll_surplus |-> Zero]

NoLiquidation ==
    [exc |-> "none", coll_gas_compensation |-> Zero, debt_to_offset |-> Zero,
     coll_to_send_to_sp |-> Zero, debt_to_redistribute |-> Zero,
     coll_to_redistribute |-> Zero, coll_surplus |-> Zero,
     old_weighted_recorded_debt |-> Zero, new_weighted_recorded_debt |-> Zero]

(* coll_sp_portion is assigned only inside "if bold_in_sp_for_offsets > 0"; *)
(* reading it otherwise raises UnboundLocalError.                           *)
_get_offset_and_redistribution_vals(entire_trove_debt, coll_to_liquidate, bold_in_sp_for_offsets, price) ==
    LET has_sp == RGt(bold_in_sp_for_offsets, Zero)
        debt_to_offset == IF has_sp THEN RMin(entire_trove_debt, bold_in_sp_for_offsets)
                          ELSE Zero
        coll_sp_portion == RMulDiv(coll_to_liquidate, debt_to_offset, entire_trove_debt)
        sp == IF has_sp
              THEN _get_coll_penalty_and_surplus(coll_sp_portion, debt_to_offset,
                                                 LIQUIDATION_PENALTY_SP, price)
              ELSE [seized_coll |-> Zero, coll_surplus |-> Zero]
        debt_to_redistribute == RSub(entire_trove_debt, debt_to_offset)
        coll_redistribution_portion == RSub(coll_to_liquidate, coll_sp_portion)
        redist == IF RGt(debt_to_redistribute, Zero) /\ RGt(coll_redistribution_portion, Zero)
                  THEN _get_coll_penalty_and_surplus(
                           RAdd(coll_redistribution_portion, sp.coll_surplus),
                           debt_to_redistribute, LIQUIDATION_PENALTY_REDISTRIBUTION, price)
                  ELSE [seized_coll |-> Zero, coll_surplus |-> Zero]
    IN  IF has_sp /\ entire_trove_debt = Zero
        THEN [NoLiquidation EXCEPT !.exc = "ZeroDivisionError"]
        ELSE IF ~has_sp /\ RGt(debt_to_redistribute, Zero)
        THEN [NoLiquidation EXCEPT !.exc = "UnboundLocalError"]
        ELSE [NoLiquidation EXCEPT
                !.debt_to_offset = debt_to_offset,
                !.coll_to_send_to_sp = sp.seized_coll,
                !.debt_to_redistribute = debt_to_redistribute,
                !.coll_to_redistribute = redist.seized_coll,
                !.coll_surplus = RAdd(sp.coll_surplus, redist.coll_surplus)]

_move_pending_trove_rewards_to_active_pool(m, bold, coll) ==
    IF ~Ok(m) THEN m
    ELSE IF bold = Zero /\ coll = Zero THEN m
    ELSE IF RGt(coll, Zero)
    THEN dp_send_coll_to_active_pool(
             IF RGt(bold, Zero) THEN dp_decrease_bold_debt(m, bold) ELSE m, coll)
    ELSE IF RGt(bold, Zero) THEN dp_decrease_bold_debt(m, bold)
    ELSE m

Remove(seq, x) == SelectSeq(seq, LAMBDA y : y # x)

(* A faulty _close_trove: the closed trove's stake stays in total_stakes. *)
close_trove_keeping_total_stakes(m, trove_id, batch_address, batch_coll, batch_debt, status) ==
    IF ~Ok(m) THEN m
    ELSE [m EXCEPT !.troves[trove_id].status = status,
                   !.troves[trove_id].debt = Zero,
                   !.troves[trove_id].coll = Zero,
                   !.troves[trove_id].stake = Zero,
                   !.troves[trove_id].annual_interest_rate = Zero,
                   !.trove_ids = Remove(@, trove_id)]

_close_trove(m, trove_id, batch_address, batch_coll, batch_debt, status) ==
    IF ~Ok(m) THEN m
    ELSE IF batch_address # NoBatch
    THEN [m EXCEPT !.tm.total_stakes = RSub(@, m.troves[trove_id].stake),
                   !.batches[batch_address].debt = batch_debt,
                   !.batches[batch_address].coll = batch_coll,
                   !.batches[batch_address].total_debt_shares =
                       RSub(@, m.troves[trove_id].batch_debt_shares),
                   !.troves[trove_id].status = status,
                   !.troves[trove_id].debt = Zero,
                   !.troves[trove_id].coll = Zero,
                   !.troves[trove_id].stake = Zero,
                   !.troves[trove_id].annual_interest_rate = Zero,
                   !.trove_ids = Remove(@, trove_id)]
    ELSE [m EXCEPT !.tm.total_stakes = RSub(@, m.troves[trove_id].stake),
                   !.troves[trove_id].status = status,
                   !.troves[trove_id].debt = Zero,
                   !.troves[trove_id].coll = Zero,
                   !.troves[trove_id].stake = Zero,
                   !.troves[trove_id].annual_interest_rate = Zero,
                   !.trove_ids = Remove(@, trove_id)]


(* _liquidate: the machine after it, the trove's latest data and the      *)
(* LiquidationValues it filled in.                                         *)
(* LatestBatchData(): the record _liquidate starts from for a trove that   *)
(* is in no batch.                                                         *)
LatestBatchData ==
    [recorded_debt |-> Zero, annual_interest_rate |-> Zero,
     annual_management_fee |-> Zero, weighted_recorded_debt |-> Zero,
     weighted_recorded_batch_management_fee |-> Zero,
     accured_interest |-> Zero, accured_management_fee |-> Zero,
     entire_debt_without_redistribution |-> Zero,
     entire_coll_without_redistribution |-> Zero]

(* "if is_trove_in_batch: ... mint_batch_management_fee(...)" of _liquidate. *)
_liquidate_batch_fee(m, trove, batch_address, batch) ==
    IF batch_address # NoBatch
    THEN mint_batch_management_fee(m, m.now, batch.accured_management_fee,
             RAdd(batch.weighted_recorded_batch_management_fee,
                  RMul(RSub(trove.entire_debt, trove.redist_bold_debt_gain),
                       batch.annual_management_fee)),
             RMul(batch.entire_debt_without_redistribution, batch.annual_management_fee),
             batch_address)
    ELSE m

(* "if single_liquidation.coll_surplus > 0: ... account_surplus(...)". *)
_liquidate_surplus(m, trove_id, coll_surplus) ==
    IF RGt(coll_surplus, Zero)
    THEN account_surplus(m, _get_trove_owner(trove_id), coll_surplus)
    ELSE m

(* The weighted debts _liquidate writes into single_liquidation. *)
_liquidate_weighted(vals, trove, batch_address, batch) ==
    IF batch_address # NoBatch
    THEN [vals EXCEPT
            !.old_weighted_recorded_debt =
                RAdd(batch.weighted_recorded_debt,
                     RMul(RSub(trove.entire_debt, trove.redist_bold_debt_gain),
                          batch.annual_interest_rate)),
            !.new_weighted_recorded_debt =
                RMul(batch.entire_debt_without_redistribution,
                     batch.annual_interest_rate)]
    ELSE [vals EXCEPT !.old_weighted_recorded_debt = trove.weighted_recorded_debt]

(* _liquidate from "Close the trove" on: m has the pending rewards moved,  *)
(* vals is what _get_offset_and_redistribution_vals returned (or raised).  *)
_liquidate_close(m, trove_id, trove, batch_address, batch, coll_gas_compensation, vals) ==
    IF ~Ok(m) THEN [m |-> m, trove |-> trove, single_liquidation |-> NoLiquidation]
    ELSE IF vals.exc # "none"
    THEN [m |-> Raise(m, vals.exc), trove |-> trove,
          single_liquidation |->
              [NoLiquidation EXCEPT !.coll_gas_compensation = coll_gas_compensation]]
    ELSE [m |-> _liquidate_surplus(
                    _liquidate_batch_fee(
                        _close_trove(m, trove_id, batch_address,
                            IF batch_address # NoBatch
                            THEN batch.entire_coll_without_redistribution ELSE Zero,
                            IF batch_address # NoBatch
                            THEN batch.entire_debt_without_redistribution ELSE Zero,
                            "CLOSED_BY_LIQUIDATION"),
                        trove, batch_address, batch),
                    trove_id, vals.coll_surplus),
          trove |-> trove,
          single_liquidation |->
              _liquidate_weighted(
                  [vals EXCEPT !.coll_gas_compensation = coll_gas_compensation],
                  trove, batch_address, batch)]

(* _liquidate once the trove's and its batch's latest data are read. *)
_liquidate_data(m, trove_id, bold_in_sp_for_offsets, price, trove, batch_address, batch) ==
    _liquidate_close(
        _move_pending_trove_rewards_to_active_pool(
            m, trove.redist_bold_debt_gain, trove.redist_coll_gain),
        trove_id, trove, batch_address, batch,
        _get_coll_gas_compensation(trove.entire_coll),
        _get_offset_and_redistribution_vals(
            trove.entire_debt,
            RSub(trove.entire_coll, _get_coll_gas_compensation(trove.entire_coll)),
            bold_in_sp_for_offsets, price))

(* _liquidate: the machine after it, the trove's latest data and the      *)
(* LiquidationValues it filled in.                                         *)
_liquidate(m, trove_id, bold_in_sp_for_offsets, price) ==
    _liquidate_data(m, trove_id, bold_in_sp_for_offsets, price,
        _get_latest_trove_data(m, trove_id),
        _get_batch_manager(m, trove_id),
        IF _get_batch_manager(m, trove_id) # NoBatch
        THEN _get_latest_batch_data(m, _get_batch_manager(m, trove_id))
        ELSE LatestBatchData)

(* _redistribute_debt_and_coll after the two pool transfers. *)
_redistribute_per_unit_staked(m, coll_numerator, debt_numerator) ==
    IF ~Ok(m) THEN m
    ELSE IF m.tm.total_stakes = Zero THEN Raise(m, "ZeroDivisionError")
    ELSE [m EXCEPT
            !.tm.last_coll_error_redistribution = RMod(coll_numerator, m.tm.total_stakes),
            !.tm.L_coll = RAdd(@, RDiv(coll_numerator, m.tm.total_stakes)),
            !.tm.last_bold_debt_error_redistribution =
                RMod(debt_numerator, m.tm.total_stakes),
            !.tm.L_bold_debt = RAdd(@, RDiv(debt_numerator, m.tm.total_stakes))]

_redistribute_debt_and_coll(m, debt, coll) ==
    IF ~Ok(m) THEN m
    ELSE IF debt = Zero THEN m
    ELSE IF RSub(get_bold_debt(m, m.now), m.dp.bold_debt) = Zero THEN m
    ELSE _redistribute_per_unit_staked(
             ap_send_coll_to_default_pool(dp_increase_bold_debt(m, debt), coll),
             RAdd(RMul(coll, DP), m.tm.last_coll_error_redistribution),
             RAdd(RMul(debt, DP), m.tm.last_bold_debt_error_redistribution))

_update_system_snapshots_exclude_coll_remainder(m, coll_remainder) ==
    IF ~Ok(m) THEN m
    ELSE [m EXCEPT !.tm.total_stakes_snapshot = m.tm.total_stakes,
                   !.tm.total_collateral_snapshot =
                       RAdd(RSub(m.ap.coll_balance, coll_remainder), m.dp.coll_balance)]

(* The part of liquidate and batch_liquidate_troves after the troves are   *)
(* closed: the pools are brought in line with the totals.                  *)
(* "if totals.debt_to_offset > 0: ... offset(...)",                        *)
(* "if totals.debt_to_redistribute > 0: self._redistribute_debt_and_coll"  *)
(* and "if totals.coll_surplus > 0: ... send_coll(...)".                   *)
offset_totals(m, totals) ==
    IF RGt(totals.debt_to_offset, Zero)
    THEN offset(m, totals.debt_to_offset, totals.coll_to_send_to_sp) ELSE m

redistribute_totals(m, totals) ==
    IF RGt(totals.debt_to_redistribute, Zero)
    THEN _redistribute_debt_and_coll(m, totals.debt_to_redistribute,
                                     totals.coll_to_redistribute)
    ELSE m

send_surplus_totals(m, totals) ==
    IF RGt(totals.coll_surplus, Zero) THEN ap_send_coll(m, totals.coll_surplus) ELSE m

(* The part of liquidate and batch_liquidate_troves after the troves are   *)
(* closed: the pools are brought in line with the totals.                  *)
apply_liquidation_to_pools(m, trove_change, totals) ==
    _update_system_snapshots_exclude_coll_remainder(
        send_surplus_totals(
            redistribute_totals(
                offset_totals(
                    mint_agg_interest_and_account_for_trove_change(m, trove_change, NoBatch),
                    totals),
                totals),
            totals),
        totals.coll_gas_compensation)

(* liquidate after _liquidate returned r. *)
liquidate_closed(r) ==
    apply_liquidation_to_pools(r.m,
        [NoChange EXCEPT
           !.coll_decrease = r.trove.entire_coll,
           !.debt_decrease = r.trove.entire_debt,
           !.applied_redist_coll_gain = r.trove.redist_coll_gain,
           !.applied_redist_bold_debt_gain = r.trove.redist_bold_debt_gain,
           !.old_weighted_recorded_debt = r.single_liquidation.old_weighted_recorded_debt,
           !.new_weighted_recorded_debt = r.single_liquidation.new_weighted_recorded_debt],
        r.single_liquidation)

(* A faulty liquidate: the ICR of the trove is not checked against MCR. *)
liquidate_any_icr(m, trove_id) ==
    IF ~Ok(m) THEN m
    ELSE IF m.tm.shutdown_time # 0 THEN Raise(m, "ValueError")
    ELSE IF RLe(m.price, Zero) THEN Raise(m, "ValueError")
    ELSE IF trove_id \notin DOMAIN m.troves THEN Raise(m, "ValueError")
    ELSE liquidate_closed(_liquidate(m, trove_id, m.sp.total_bold_deposits, m.price))

liquidate(m, trove_id) ==
    IF ~Ok(m) THEN m
    ELSE IF m.tm.shutdown_time # 0 THEN Raise(m, "ValueError")
    ELSE IF RLe(m.price, Zero) THEN Raise(m, "ValueError")
    ELSE IF trove_id \notin DOMAIN m.troves THEN Raise(m, "ValueError")
    ELSE IF RGe(get_current_icr(m, trove_id, m.price), MCR) THEN Raise(m, "ValueError")
    ELSE liquidate_closed(_liquidate(m, trove_id, m.sp.total_bold_deposits, m.price))


_add_liquidation_values_to_totals(trove, single_liquidation, acc) ==
    [acc EXCEPT
       !.totals.coll_gas_compensation = RAdd(@, single_liquidation.coll_gas_compensation),
       !.totals.debt_to_offset = RAdd(@, single_liquidation.debt_to_offset),
       !.totals.coll_to_send_to_sp = RAdd(@, single_liquidation.coll_to_send_to_sp),
       !.totals.debt_to_redistribute = RAdd(@, single_liquidation.debt_to_redistribute),
       !.totals.coll_to_redistribute = RAdd(@, single_liquidation.coll_to_redistribute),
       !.totals.coll_surplus = RAdd(@, single_liquidation.coll_surplus),
       !.trove_change.debt_decrease = RAdd(@, trove.entire_debt),
       !.trove_change.coll_decrease = RAdd(@, trove.entire_coll),
       !.trove_change.applied_redist_bold_debt_gain = RAdd(@, trove.redist_bold_debt_gain),
       !.trove_change.old_weighted_recorded_debt =
           RAdd(@, single_liquidation.old_weighted_recorded_debt),
       !.trove_change.new_weighted_recorded_debt =
           RAdd(@, single_liquidation.new_weighted_recorded_debt)]

(* The loop "for trove_id in trove_array" of batch_liquidate_troves.  acc  *)
(* holds the machine, the BOLD left for offsets, the totals, the trove     *)
(* change and the ids liquidated so far; batch_liquidate_one is the loop   *)
(* body after _liquidate returned r.                                       *)
RECURSIVE batch_liquidate_loop(_, _, _)
batch_liquidate_one(acc, trove_array, i, r) ==
    IF Ok(r.m)
    THEN batch_liquidate_loop(
             _add_liquidation_values_to_totals(r.trove, r.single_liquidation,
                 [acc EXCEPT !.m = r.m,
                             !.bold_in_sp_for_offsets =
                                 RSub(@, r.single_liquidation.debt_to_offset),
                             !.done = Append(@, trove_array[i])]),
             trove_array, i + 1)
    ELSE [acc EXCEPT !.m = r.m]

batch_liquidate_loop(acc, trove_array, i) ==
    IF i > Len(trove_array) \/ ~Ok(acc.m) THEN acc
    ELSE IF \/ trove_array[i] \notin DOMAIN acc.m.troves
            \/ ~_is_active_or_zombie(acc.m.troves[trove_array[i]].status)
            \/ ~RLt(get_current_icr(acc.m, trove_array[i], acc.m.price), MCR)
    THEN batch_liquidate_loop(acc, trove_array, i + 1)
    ELSE batch_liquidate_one(acc, trove_array, i,
             _liquidate(acc.m, trove_array[i], acc.bold_in_sp_for_offsets, acc.m.price))

batch_liquidate_result(m, trove_array) ==
    batch_liquidate_loop(
        [m |-> m,
         bold_in_sp_for_offsets |->
             RMax(Zero, RSub(m.sp.total_bold_deposits, MIN_BOLD_IN_SP)),
         totals |-> NoLiquidation, trove_change |-> NoChange, done |-> <<>>],
        trove_array, 1)

(* batch_liquidate_troves after the loop. *)
batch_liquidate_finish(acc) ==
    IF ~Ok(acc.m) THEN acc.m
    ELSE IF acc.trove_change.debt_decrease = Zero THEN Raise(acc.m, "ValueError")
    ELSE apply_liquidation_to_pools(acc.m, acc.trove_change, acc.totals)

batch_liquidate_troves(m, trove_array) ==
    IF ~Ok(m) THEN m
    ELSE IF trove_array = <<>> THEN Raise(m, "ValueError")
    ELSE IF RLe(m.price, Zero) THEN Raise(m, "ValueError")
    ELSE batch_liquidate_finish(batch_liquidate_result(m, trove_array))

shutdown(m) ==
    IF ~Ok(m) THEN m
    ELSE [m EXCEPT !.tm.shutdown_time = m.now, !.ap.shutdown_time = m.now]


-----------------------------------------------------------------------------
(* TroveManager: redemption.                                               *)

_get_last_trove_id(m) ==
    IF m.trove_ids = <<>> THEN 0 ELSE m.trove_ids[Len(m.trove_ids)]

_get_prev_trove_id(m, trove_id) ==
    LET found == {i \in 1..Len(m.trove_ids) : m.trove_ids[i] = trove_id}
        index == CHOOSE i \in found : \A j \in found : i <= j
    IN  IF found = {} THEN 0
        ELSE IF index > 1 THEN m.trove_ids[index - 1] ELSE 0

_get_redemption_rate(price) == REDEMPTION_RATE

_update_stake_and_total_stakes(m, trove_id, new_coll) ==
    IF ~Ok(m) THEN m
    ELSE [m EXCEPT !.tm.total_stakes = RAdd(RSub(@, m.troves[trove_id].stake), new_coll),
                   !.troves[trove_id].stake = new_coll]

_update_trove_reward_snapshots(m, trove_id) ==
    IF ~Ok(m) THEN m
    ELSE [m EXCEPT !.reward_snapshots[trove_id] =
                       [coll |-> m.tm.L_coll, bold_debt |-> m.tm.L_bold_debt]]

(* Only called with check_batch_shares_ratio = False. *)
_update_batch_shares(m, trove_id, batch_address, trove_change, new_debt, batch_coll, batch_debt) ==
    LET old_shares == m.troves[trove_id].batch_debt_shares
        old_debt == RSub(RAdd(new_debt, trove_change.debt_decrease), trove_change.debt_increase)
        new_shares == IF m.batches[batch_address].total_debt_shares = Zero \/ old_debt = Zero
                      THEN new_debt
                      ELSE RMulDiv(old_shares, new_debt, old_debt)
    IN  IF ~Ok(m) THEN m
        ELSE [m EXCEPT !.batches[batch_address].debt = batch_debt,
                       !.batches[batch_address].coll = batch_coll,
                       !.batches[batch_address].total_debt_shares =
                           RAdd(RSub(@, old_shares), new_shares),
                       !.troves[trove_id].batch_debt_shares = new_shares]

(* _update_batch_interest_prior_to_redemption with the batch's latest data. *)
_update_batch_interest_with(m, batch_address, batch) ==
    mint_agg_interest_and_account_for_trove_change(
        [m EXCEPT !.batches[batch_address].debt = batch.entire_debt_without_redistribution,
                  !.batches[batch_address].last_debt_update_time = m.now],
        [NoChange EXCEPT
           !.old_weighted_recorded_debt = batch.weighted_recorded_debt,
           !.new_weighted_recorded_debt =
               RMul(batch.entire_debt_without_redistribution, batch.annual_interest_rate),
           !.batch_accrued_management_fee = batch.accured_management_fee,
           !.old_weighted_recorded_batch_management_fee =
               batch.weighted_recorded_batch_management_fee,
           !.new_weighted_recorded_batch_management_fee =
               RMul(batch.entire_debt_without_redistribution,
                    batch.annual_management_fee)],
        batch_address)

_update_batch_interest_prior_to_redemption(m, batch_address) ==
    IF ~Ok(m) THEN m
    ELSE _update_batch_interest_with(m, batch_address,
                                     _get_latest_batch_data(m, batch_address))

NoRedemption ==
    [trove_id |-> 0, batch_address |-> NoBatch, bold_lot |-> Zero, coll_lot |-> Zero,
     coll_fee |-> Zero, applied_redist_bold_debt_gain |-> Zero,
     old_weighted_recorded_debt |-> Zero, new_weighted_recorded_debt |-> Zero,
     is_zombie_trove |-> FALSE, new_debt |-> Zero]

(* sr carries trove_id, batch_address, bold_lot and coll_lot; trove is the *)
(* trove's latest data.  The result holds the machine and sr completed.    *)
(* "self.troves[single_redemption.trove_id].coll = new_coll" *)
set_trove_coll(m, trove_id, new_coll) ==
    IF ~Ok(m) THEN m ELSE [m EXCEPT !.troves[trove_id].coll = new_coll]

(* The two branches of "if is_trove_in_batch" in _apply_single_redemption; *)
(* new_amount_for_weighted_debt is read in the first one only.             *)
_apply_single_redemption_to_trove(m, sr, batch, new_debt, new_coll, new_amount_for_weighted_debt) ==
    IF sr.batch_address # NoBatch
    THEN _update_batch_shares(
             set_trove_coll(
                 mint_batch_management_fee(m, m.now, Zero,
                     batch.weighted_recorded_batch_management_fee,
                     RMul(new_amount_for_weighted_debt, batch.annual_management_fee),
                     sr.batch_address),
                 sr.trove_id, new_coll),
             sr.trove_id, sr.batch_address,
             [NoChange EXCEPT !.debt_decrease = sr.bold_lot, !.coll_decrease = sr.coll_lot],
             new_debt,
             batch.entire_coll_without_redistribution,
             batch.entire_debt_without_redistribution)
    ELSE [m EXCEPT !.troves[sr.trove_id].debt = new_debt,
                   !.troves[sr.trove_id].coll = new_coll,
                   !.troves[sr.trove_id].last_debt_update_time = m.now]

_apply_single_redemption_with(m, sr, trove, batch, new_debt, new_coll, new_amount_for_weighted_debt) ==
    [m |-> _update_trove_reward_snapshots(
               _move_pending_trove_rewards_to_active_pool(
                   _update_stake_and_total_stakes(
                       _apply_single_redemption_to_trove(m, sr, batch, new_debt, new_coll,
                                                         new_amount_for_weighted_debt),
                       sr.trove_id, new_coll),
                   trove.redist_bold_debt_gain, trove.redist_coll_gain),
               sr.trove_id),
     sr |-> [sr EXCEPT
               !.applied_redist_bold_debt_gain = trove.redist_bold_debt_gain,
               !.old_weighted_recorded_debt =
                   IF sr.batch_address # NoBatch THEN batch.weighted_recorded_debt
                   ELSE trove.weighted_recorded_debt,
               !.new_weighted_recorded_debt =
                   IF sr.batch_address # NoBatch
                   THEN RMul(new_amount_for_weighted_debt, batch.annual_interest_rate)
                   ELSE RMul(new_debt, trove.annual_interest_rate),
               !.new_debt = new_debt]]

_apply_single_redemption_batch(m, sr, trove, batch) ==
    _apply_single_redemption_with(m, sr, trove, batch,
        RSub(trove.entire_debt, sr.bold_lot),
        RSub(trove.entire_coll, sr.coll_lot),
        RSub(RAdd(batch.entire_debt_without_redistribution, trove.redist_bold_debt_gain),
             sr.bold_lot))

(* sr carries trove_id, batch_address, bold_lot and coll_lot; trove is the *)
(* trove's latest data.  The result holds the machine and sr completed.    *)
_apply_single_redemption(m, sr, trove) ==
    _apply_single_redemption_batch(m, sr, trove,
        IF sr.batch_address # NoBatch THEN _get_latest_batch_data(m, sr.batch_address)
        ELSE LatestBatchData)

(* A faulty end of _redeem_collateral_from_trove: the trove is marked      *)
(* Zombie but the pointer for the next redemption is not stored.           *)
redeem_zombie_unrecorded(r, is_zombie_trove) ==
    IF Ok(r.m) /\ RLt(r.sr.new_debt, RDiv(MIN_DEBT, DP)) /\ ~is_zombie_trove
    THEN [r EXCEPT !.m.troves[r.sr.trove_id].status = "ZOMBIE"]
    ELSE r

(* The end of _redeem_collateral_from_trove: "if new_debt < MIN_DEBT". *)
_redeem_zombie(r, is_zombie_trove) ==
    IF Ok(r.m) /\ RLt(r.sr.new_debt, RDiv(MIN_DEBT, DP))
    THEN [r EXCEPT !.m =
            IF ~is_zombie_trove
            THEN [r.m EXCEPT !.troves[r.sr.trove_id].status = "ZOMBIE",
                             !.tm.last_zombie_trove_id =
                                 IF RGt(r.sr.new_debt, Zero) THEN r.sr.trove_id ELSE @]
            ELSE IF r.sr.new_debt = Zero
            THEN [r.m EXCEPT !.tm.last_zombie_trove_id = 0]
            ELSE r.m]
    ELSE r

_redeem_lot(m, sr, trove, bold_lot, corresponding_coll, coll_fee) ==
    _redeem_zombie(
        _apply_single_redemption(m,
            [sr EXCEPT !.bold_lot = bold_lot, !.coll_fee = coll_fee,
                       !.coll_lot = RSub(corresponding_coll, coll_fee)],
            trove),
        sr.is_zombie_trove)

(* A faulty _redeem_collateral_from_trove: the lot is the trove's entire   *)
(* debt, whatever amount is still to redeem.                               *)
redeem_whole_debt(m, sr, trove, max_bold_amount, price, redemption_rate) ==
    _redeem_lot(m, sr, trove,
        trove.entire_debt,
        RMulDiv(trove.entire_debt, DP, price),
        RMulDiv(RMulDiv(trove.entire_debt, DP, price), redemption_rate, DP))

_redeem_from_trove_data(m, sr, trove, max_bold_amount, price, redemption_rate) ==
    _redeem_lot(m, sr, trove,
        RMin(max_bold_amount, trove.entire_debt),
        RMulDiv(RMin(max_bold_amount, trove.entire_debt), DP, price),
        RMulDiv(RMulDiv(RMin(max_bold_amount, trove.entire_debt), DP, price),
                redemption_rate, DP))

_redeem_collateral_from_trove(m, sr, max_bold_amount, price, redemption_rate) ==
    _redeem_from_trove_data(m, sr, _get_latest_trove_data(m, sr.trove_id),
                            max_bold_amount, price, redemption_rate)


add_redemption_to_totals(total, sr) ==
    [total EXCEPT
       !.coll_decrease = RAdd(@, sr.coll_lot),
       !.debt_decrease = RAdd(@, sr.bold_lot),
       !.applied_redist_bold_debt_gain = RAdd(@, sr.applied_redist_bold_debt_gain),
       !.old_weighted_recorded_debt = RAdd(@, sr.old_weighted_recorded_debt),
       !.new_weighted_recorded_debt = RAdd(@, sr.new_weighted_recorded_debt)]

(* The while loop of redeem_collateral.  st holds the machine, the trove   *)
(* under the cursor, the zombie flag, the BOLD still to redeem, the        *)
(* totals, the batch whose interest was updated last, the iteration count  *)
(* and the lots taken so far.  max_iterations = 0 stands for no limit.     *)
(* redeem_loop_next moves the cursor; redeem_loop_trove is the body once   *)
(* the batch interest is updated (m1), redeem_loop_lot once the trove is   *)
(* redeemed from (r).                                                      *)
redeem_loop_next(st) ==
    [st EXCEPT !.trove_id = IF st.is_zombie_trove THEN _get_last_trove_id(st.m)
                            ELSE _get_prev_trove_id(st.m, st.trove_id),
               !.is_zombie_trove = FALSE,
               !.iterations = @ + 1]

RECURSIVE redeem_loop(_, _, _)
redeem_loop_lot(st, price, max_iterations, batch_address, r) ==
    IF ~Ok(r.m) THEN [st EXCEPT !.m = r.m]
    ELSE redeem_loop(
             [redeem_loop_next(st) EXCEPT
                !.m = r.m,
                !.total_trove_change = add_redemption_to_totals(@, r.sr),
                !.total_coll_fee = RAdd(@, r.sr.coll_fee),
                !.remaining_bold = RSub(@, r.sr.bold_lot),
                !.last_batch_updated_interest =
                    IF batch_address # NoBatch THEN batch_address ELSE @,
                !.lots = Append(@, r.sr)],
             price, max_iterations)

redeem_loop_trove(st, price, max_iterations, batch_address, m1) ==
    IF ~Ok(m1) THEN [st EXCEPT !.m = m1]
    ELSE redeem_loop_lot(st, price, max_iterations, batch_address,
             _redeem_collateral_from_trove(m1,
                 [NoRedemption EXCEPT !.trove_id = st.trove_id,
                                      !.batch_address = batch_address,
                                      !.is_zombie_trove = st.is_zombie_trove],
                 st.remaining_bold, price, _get_redemption_rate(price)))

redeem_loop(st, price, max_iterations) ==
    IF ~Ok(st.m) \/ st.trove_id = 0 \/ RLe(st.remaining_bold, Zero)
       \/ (max_iterations > 0 /\ st.iterations >= max_iterations)
    THEN st
    ELSE IF st.trove_id \notin DOMAIN st.m.troves
    THEN [st EXCEPT !.m = Raise(st.m, "ValueError")]
    ELSE IF RLt(get_current_icr(st.m, st.trove_id, price), DP)
    THEN redeem_loop(redeem_loop_next(st), price, max_iterations)
    ELSE redeem_loop_trove(st, price, max_iterations,
             _get_batch_manager(st.m, st.trove_id),
             IF /\ _get_batch_manager(st.m, st.trove_id) # NoBatch
                /\ _get_batch_manager(st.m, st.trove_id) # st.last_batch_updated_interest
             THEN _update_batch_interest_prior_to_redemption(
                      st.m, _get_batch_manager(st.m, st.trove_id))
             ELSE st.m)

redeem_result(m, bold_amount, max_iterations) ==
    redeem_loop(
        [m |-> m,
         trove_id |-> IF m.tm.last_zombie_trove_id # 0 THEN m.tm.last_zombie_trove_id
                      ELSE _get_last_trove_id(m),
         is_zombie_trove |-> m.tm.last_zombie_trove_id # 0,
         remaining_bold |-> bold_amount,
         total_trove_change |-> NoChange, total_coll_fee |-> Zero,
         last_batch_updated_interest |-> NoBatch, iterations |-> 0, lots |-> <<>>],
        m.price, max_iterations)

(* Collateral sent to the redeemer leaves the system. *)
(* "if total.coll_decrease > 0: self.active_pool.send_coll(redeemer, ...)": *)
(* collateral sent to the redeemer leaves the system.                       *)
redeemer_receives(m, amount) ==
    IF ~Ok(m) THEN m ELSE [m EXCEPT !.paid.out = RAdd(@, amount)]

send_coll_to_redeemer(m, amount) ==
    IF RGt(amount, Zero) THEN redeemer_receives(ap_send_coll(m, amount), amount) ELSE m

(* redeem_collateral after the loop. *)
redeem_collateral_finish(st) ==
    IF ~Ok(st.m) THEN st.m
    ELSE send_coll_to_redeemer(
             mint_agg_interest_and_account_for_trove_change(
                 st.m, st.total_trove_change, NoBatch),
             st.total_trove_change.coll_decrease)

redeem_collateral(m, redeemer, bold_amount, max_iterations) ==
    IF ~Ok(m) THEN m
    ELSE IF m.tm.shutdown_time # 0 THEN Raise(m, "ValueError")
    ELSE IF RLe(bold_amount, Zero) THEN Raise(m, "ValueError")
    ELSE IF RLt(m.token[redeemer], bold_amount) THEN Raise(m, "ValueError")
    ELSE IF RLe(m.price, Zero) THEN Raise(m, "ValueError")
    ELSE redeem_collateral_finish(redeem_result(m, bold_amount, max_iterations))

_urgent_redeem_lot(m, sr, trove, bold_lot, coll_lot, price) ==
    _apply_single_redemption(m,
        [sr EXCEPT
           !.coll_lot = IF RGt(coll_lot, trove.entire_coll) THEN trove.entire_coll
                        ELSE coll_lot,
           !.bold_lot = IF RGt(coll_lot, trove.entire_coll)
                        THEN RMulDiv(trove.entire_coll, price,
                                     RAdd(DP, URGENT_REDEMPTION_BONUS))
                        ELSE bold_lot],
        trove)

_urgent_redeem_collateral_from_trove(m, sr, trove, max_bold_amount, price) ==
    _urgent_redeem_lot(m, sr, trove,
        RMin(max_bold_amount, trove.entire_debt),
        RMulDiv(RMin(max_bold_amount, trove.entire_debt),
                RAdd(DP, URGENT_REDEMPTION_BONUS), price),
        price)

(* The for loop of urgent_redemption. *)
(* The for loop of urgent_redemption; urgent_loop_trove is its body once   *)
(* the batch interest is updated (m1), urgent_loop_lot once the trove is   *)
(* redeemed from (r).                                                      *)
RECURSIVE urgent_loop(_, _, _, _)
urgent_loop_lot(st, trove_array, i, price, r) ==
    IF ~Ok(r.m) THEN [st EXCEPT !.m = r.m]
    ELSE urgent_loop(
             [st EXCEPT !.m = r.m,
                        !.total_trove_change = add_redemption_to_totals(@, r.sr),
                        !.remaining_bold = RSub(@, r.sr.bold_lot),
                        !.lots = Append(@, r.sr)],
             trove_array, i + 1, price)

urgent_loop_trove(st, trove_array, i, price, trove, batch_address, m1) ==
    IF ~Ok(m1) THEN [st EXCEPT !.m = m1]
    ELSE urgent_loop_lot(st, trove_array, i, price,
             _urgent_redeem_collateral_from_trove(m1,
                 [NoRedemption EXCEPT !.trove_id = trove_array[i],
                                      !.batch_address = batch_address],
                 trove, st.remaining_bold, price))

urgent_loop(st, trove_array, i, price) ==
    IF i > Len(trove_array) \/ ~Ok(st.m) \/ st.remaining_bold = Zero THEN st
    ELSE IF \/ trove_array[i] \notin DOMAIN st.m.troves
            \/ ~_is_active_or_zombie(st.m.troves[trove_array[i]].status)
            \/ st.m.troves[trove_array[i]].debt = Zero
    THEN urgent_loop(st, trove_array, i + 1, price)
    ELSE urgent_loop_trove(st, trove_array, i, price,
             _get_latest_trove_data(st.m, trove_array[i]),
             _get_batch_manager(st.m, trove_array[i]),
             IF _get_batch_manager(st.m, trove_array[i]) # NoBatch
             THEN _update_batch_interest_prior_to_redemption(
                      st.m, _get_batch_manager(st.m, trove_array[i]))
             ELSE st.m)

urgent_result(m, bold_amount, trove_array) ==
    urgent_loop([m |-> m, remaining_bold |-> bold_amount,
                 total_trove_change |-> NoChange, lots |-> <<>>],
                trove_array, 1, m.price)

(* urgent_redemption after the loop. *)
urgent_redemption_finish(st, redeemer, min_collateral) ==
    IF ~Ok(st.m) THEN st.m
    ELSE IF RLt(st.total_trove_change.coll_decrease, min_collateral)
    THEN Raise(st.m, "ValueError")
    ELSE token_burn(
             send_coll_to_redeemer(
                 mint_agg_interest_and_account_for_trove_change(
                     st.m, st.total_trove_change, NoBatch),
                 st.total_trove_change.coll_decrease),
             redeemer, st.total_trove_change.debt_decrease)

urgent_redemption(m, redeemer, bold_amount, trove_array, min_collateral) ==
    IF ~Ok(m) THEN m
    ELSE IF m.tm.shutdown_time = 0 THEN Raise(m, "ValueError")
    ELSE IF RLe(bold_amount, Zero) THEN Raise(m, "ValueError")
    ELSE IF RLt(m.token[redeemer], bold_amount) THEN Raise(m, "ValueError")
    ELSE IF RLe(m.price, Zero) THEN Raise(m, "ValueError")
    ELSE urgent_redemption_finish(urgent_result(m, bold_amount, trove_array),
                                  redeemer, min_collateral)


-----------------------------------------------------------------------------
(* BoldProtocolEconomicModel: the operations that build the state.         *)

(* open_trove after active_pool.receive_coll. *)
open_trove_account(m, owner, collateral, debt, interest_rate) ==
    IF ~Ok(m) THEN m
    ELSE token_mint(
             [m EXCEPT
                !.paid.in = RAdd(@, collateral),
                !.ap.agg_recorded_debt = RAdd(@, debt),
                !.ap.agg_weighted_debt_sum = RAdd(@, RMul(debt, interest_rate)),
                !.ap.last_agg_update_time = m.current_time],
             owner, debt)

open_trove(m, owner, collateral, debt, interest_rate) ==
    IF ~Ok(m) THEN m
    ELSE IF RLe(collateral, Zero) THEN Raise(m, "ValueError")
    ELSE IF RLt(debt, RDiv(MIN_DEBT, DP)) THEN Raise(m, "ValueError")
    ELSE IF RLt(RMulDiv(collateral, m.price, debt), MCR) THEN Raise(m, "ValueError")
    ELSE IF RLt(interest_rate, MIN_ANNUAL_INTEREST_RATE)
            \/ RGt(interest_rate, MAX_ANNUAL_INTEREST_RATE)
    THEN Raise(m, "ValueError")
    ELSE open_trove_account(
             ap_receive_coll(
                 [m EXCEPT
                    !.next_trove_id = @ + 1,
                    !.troves = (m.next_trove_id :>
                                   [debt |-> debt, coll |-> collateral,
                                    stake |-> collateral, status |-> "ACTIVE",
                                    last_debt_update_time |-> m.current_time,
                                    annual_interest_rate |-> interest_rate,
                                    interest_batch_manager |-> NoBatch,
                                    batch_debt_shares |-> Zero]) @@ @,
                    !.trove_ids = Append(@, m.next_trove_id),
                    !.tm.total_stakes = RAdd(@, collateral),
                    !.reward_snapshots =
                        (m.next_trove_id :>
                            [coll |-> m.tm.L_coll, bold_debt |-> m.tm.L_bold_debt]) @@ @],
                 collateral),
             owner, collateral, debt, interest_rate)

create_batch(m, manager, interest_rate, management_fee) ==
    IF ~Ok(m) THEN m
    ELSE IF RLt(interest_rate, MIN_ANNUAL_INTEREST_RATE)
       \/ RGt(interest_rate, MAX_ANNUAL_INTEREST_RATE)
    THEN Raise(m, "ValueError")
    ELSE IF RGt(management_fee, MAX_MANAGEMENT_FEE) THEN Raise(m, "ValueError")
    ELSE [m EXCEPT !.batches =
             (manager :> [debt |-> Zero, coll |-> Zero,
                          last_debt_update_time |-> m.current_time,
                          annual_interest_rate |-> interest_rate,
                          annual_management_fee |-> management_fee,
                          total_debt_shares |-> Zero]) @@ @]

(* join_batch: the trove leaves the batch it was in, if any. *)
join_batch_leave(m, trove_id, trove) ==
    IF _get_batch_manager(m, trove_id) # NoBatch
    THEN [m EXCEPT
            !.batches[_get_batch_manager(m, trove_id)].total_debt_shares =
                RSub(@, m.troves[trove_id].batch_debt_shares),
            !.batches[_get_batch_manager(m, trove_id)].debt = RSub(@, trove.recorded_debt),
            !.batches[_get_batch_manager(m, trove_id)].coll =
                RSub(@, m.troves[trove_id].coll)]
    ELSE m

(* join_batch: the trove enters the new batch with its shares. *)
join_batch_enter(m, trove_id, batch_manager, trove) ==
    LET shares == IF m.batches[batch_manager].debt = Zero THEN trove.entire_debt
                  ELSE RMulDiv(trove.entire_debt,
                               m.batches[batch_manager].total_debt_shares,
                               m.batches[batch_manager].debt)
    IN  [m EXCEPT
           !.troves[trove_id].interest_batch_manager = batch_manager,
           !.troves[trove_id].annual_interest_rate =
               m.batches[batch_manager].annual_interest_rate,
           !.troves[trove_id].batch_debt_shares = shares,
           !.batches[batch_manager].total_debt_shares = RAdd(@, shares),
           !.batches[batch_manager].debt = RAdd(@, trove.recorded_debt),
           !.batches[batch_manager].coll = RAdd(@, m.troves[trove_id].coll)]

(* join_batch with the trove's latest data. *)
join_batch_trove(m, trove_id, batch_manager, trove) ==
    IF trove.entire_debt = Zero THEN Raise(m, "ZeroDivisionError")
    ELSE IF RLt(RMulDiv(trove.entire_coll, m.price, trove.entire_debt),
                RAdd(MCR, Rat(10, 100)))
    THEN Raise(m, "ValueError")
    ELSE join_batch_enter(join_batch_leave(m, trove_id, trove),
                          trove_id, batch_manager, trove)

join_batch(m, trove_id, batch_manager) ==
    IF ~Ok(m) THEN m
    ELSE IF trove_id \notin DOMAIN m.troves THEN Raise(m, "ValueError")
    ELSE IF batch_manager \notin DOMAIN m.batches THEN Raise(m, "ValueError")
    ELSE join_batch_trove(m, trove_id, batch_manager,
                          _get_latest_trove_data(m, trove_id))

provide_to_stability_pool(m, depositor, amount, do_claim) ==
    IF ~Ok(m) THEN m
    ELSE IF RLt(m.token[depositor], amount) THEN Raise(m, "ValueError")
    ELSE provide_to_sp(m, depositor, amount, do_claim)

(* The troves update_price finds below MCR, in the order of the dict. *)
RECURSIVE liquidatable_troves(_, _, _)
liquidatable_troves(m, new_price, trove_id) ==
    IF trove_id >= m.next_trove_id THEN <<>>
    ELSE LET rest == liquidatable_troves(m, new_price, trove_id + 1)
         IN  IF /\ _is_active_or_zombie(m.troves[trove_id].status)
                /\ RLt(get_current_icr(m, trove_id, new_price), MCR)
             THEN <<trove_id>> \o rest
             ELSE rest

(* update_price once the troves below MCR are collected. *)
update_price_found(m, found) ==
    IF found # <<>> THEN batch_liquidate_troves(m, found) ELSE m

update_price_set(m, new_price) ==
    update_price_found(m, liquidatable_troves(m, new_price, 1))

update_price(m, new_price) ==
    IF ~Ok(m) THEN m ELSE update_price_set([m EXCEPT !.price = new_price], new_price)

update_time(m, seconds) ==
    IF ~Ok(m) THEN m ELSE [m EXCEPT !.current_time = @ + seconds]


-----------------------------------------------------------------------------
(* vault_model.py: the single-file BoldProtocol with its own Trove,        *)
(* InterestBatch and StabilityPool.                                        *)

BoldProtocol_init ==
    [troves |-> <<>>, batches |-> <<>>,
     stability_pool |-> [total_deposits |-> Zero, depositors |-> <<>>],
     eth_price |-> I(2000), total_system_debt |-> Zero,
     total_collateral |-> Zero, next_trove_id |-> 1, current_time |-> 0,
     exc |-> "none"]

Trove_icr(trove, eth_price) ==
    IF RGt(trove.debt, Zero) THEN RMulDiv(trove.collateral, eth_price, trove.debt)
    ELSE Inf

StabilityPool_deposit(v, addr, amount) ==
    LET held == IF addr \in DOMAIN v.stability_pool.depositors
                THEN v.stability_pool.depositors[addr] ELSE Zero
    IN  [v EXCEPT
           !.stability_pool.depositors = (addr :> RAdd(held, amount)) @@ @,
           !.stability_pool.total_deposits = RAdd(@, amount)]

(* StabilityPool.withdraw: a request above the balance, or from an address *)
(* with no deposit, changes nothing and raises nothing.                    *)
StabilityPool_withdraw(v, addr, amount) ==
    LET pool == v.stability_pool
    IN  IF addr \in DOMAIN pool.depositors /\ RGe(pool.depositors[addr], amount)
        THEN LET left == RSub(pool.depositors[addr], amount)
             IN  [v EXCEPT
                    !.stability_pool.depositors =
                        IF left = Zero
                        THEN [a \in DOMAIN pool.depositors \ {addr} |->
                                  pool.depositors[a]]
                        ELSE [pool.depositors EXCEPT ![addr] = left],
                    !.stability_pool.total_deposits = RSub(@, amount)]
        ELSE v

(* offset_debt taking the same amount from every depositor. *)
offset_debt_in_equal_parts(v, debt_to_offset, collateral_to_distribute) ==
    LET pool == v.stability_pool
        amount_offset == RMin(debt_to_offset, pool.total_deposits)
        part == RDiv(amount_offset, I(Cardinality(DOMAIN pool.depositors)))
    IN  IF pool.total_deposits = Zero THEN <<v, Zero>>
        ELSE <<[v EXCEPT
                  !.stability_pool.depositors =
                      [addr \in DOMAIN pool.depositors |->
                           RSub(pool.depositors[addr],
                                RMin(pool.depositors[addr], part))],
                  !.stability_pool.total_deposits = RSub(@, amount_offset)],
               amount_offset>>

(* Returns <<protocol, amount offset>>. *)
StabilityPool_offset_debt(v, debt_to_offset, collateral_to_distribute) ==
    LET pool == v.stability_pool
        amount_offset == RMin(debt_to_offset, pool.total_deposits)
        after(addr) ==
            LET deposit == pool.depositors[addr]
                share == RDiv(deposit, pool.total_deposits)
            IN  RSub(deposit, RMin(deposit, RMul(amount_offset, share)))
    IN  IF pool.total_deposits = Zero THEN <<v, Zero>>
        ELSE <<[v EXCEPT
                  !.stability_pool.depositors =
                      [addr \in DOMAIN pool.depositors |-> after(addr)],
                  !.stability_pool.total_deposits = RSub(@, amount_offset)],
               amount_offset>>

(* open_trove accepting any collateral ratio. *)
open_trove_any_ratio(v, owner, collateral, debt, interest_rate) ==
    IF RLt(debt, RDiv(MIN_DEBT, DP)) THEN Raise(v, "ValueError")
    ELSE IF RLt(interest_rate, MIN_ANNUAL_INTEREST_RATE)
            \/ RGt(interest_rate, MAX_ANNUAL_INTEREST_RATE)
    THEN Raise(v, "ValueError")
    ELSE [v EXCEPT
            !.next_trove_id = @ + 1,
            !.troves = (v.next_trove_id :>
                           [owner |-> owner, collateral |-> collateral,
                            debt |-> debt, interest_rate |-> interest_rate,
                            batch_manager |-> NoBatch,
                            last_update |-> v.current_time]) @@ @,
            !.total_system_debt = RAdd(@, debt),
            !.total_collateral = RAdd(@, collateral)]

BoldProtocol_open_trove(v, owner, collateral, debt, interest_rate) ==
    IF RLt(debt, RDiv(MIN_DEBT, DP)) THEN Raise(v, "ValueError")
    ELSE IF RLt(RMulDiv(collateral, v.eth_price, debt), MCR) THEN Raise(v, "ValueError")
    ELSE IF RLt(interest_rate, MIN_ANNUAL_INTEREST_RATE)
            \/ RGt(interest_rate, MAX_ANNUAL_INTEREST_RATE)
    THEN Raise(v, "ValueError")
    ELSE [v EXCEPT
            !.next_trove_id = @ + 1,
            !.troves = (v.next_trove_id :>
                           [owner |-> owner, collateral |-> collateral,
                            debt |-> debt, interest_rate |-> interest_rate,
                            batch_manager |-> NoBatch,
                            last_update |-> v.current_time]) @@ @,
            !.total_system_debt = RAdd(@, debt),
            !.total_collateral = RAdd(@, collateral)]

(* _apply_interest charging the trove without adding the interest to       *)
(* total_system_debt.                                                      *)
apply_interest_off_the_books(v, trove_id) ==
    LET trove == v.troves[trove_id]
        elapsed_time == v.current_time - trove.last_update
        interest_factor == RDiv(RMul(trove.interest_rate, I(elapsed_time)),
                                I(ONE_YEAR_IN_SECONDS))
        interest == RMul(trove.debt, interest_factor)
    IN  IF elapsed_time = 0 THEN v
        ELSE [v EXCEPT
                !.troves[trove_id].debt = RAdd(@, interest),
                !.troves[trove_id].last_update = v.current_time]

BoldProtocol__apply_interest(v, trove_id) ==
    LET trove == v.troves[trove_id]
        elapsed_time == v.current_time - trove.last_update
        interest_factor == RDiv(RMul(trove.interest_rate, I(elapsed_time)),
                                I(ONE_YEAR_IN_SECONDS))
        interest == RMul(trove.debt, interest_factor)
    IN  IF elapsed_time = 0 THEN v
        ELSE [v EXCEPT
                !.troves[trove_id].debt = RAdd(@, interest),
                !.total_system_debt = RAdd(@, interest),
                !.troves[trove_id].last_update = v.current_time]

BoldProtocol_update_time(v, seconds) == [v EXCEPT !.current_time = @ + seconds]

RECURSIVE SumOver(_, _, _)
SumOver(troves_dict, ids, field) ==
    IF ids = <<>> THEN Zero
    ELSE RAdd(troves_dict[Head(ids)][field], SumOver(troves_dict, Tail(ids), field))

InterestBatch_update_totals(v, manager) ==
    [v EXCEPT
       !.batches[manager].total_debt =
           SumOver(v.troves, v.batches[manager].troves, "debt"),
       !.batches[manager].total_collateral =
           SumOver(v.troves, v.batches[manager].troves, "collateral")]

(* batch.troves.remove(trove_id); batch.update_totals(self.troves).  The   *)
(* list's remove raises ValueError when trove_id is not in it.             *)
BoldProtocol_leave_batch(v, trove_id, manager) ==
    IF ~Ok(v) THEN v
    ELSE IF \A k \in DOMAIN v.batches[manager].troves :
                v.batches[manager].troves[k] # trove_id
    THEN Raise(v, "ValueError")
    ELSE InterestBatch_update_totals(
             [v EXCEPT !.batches[manager].troves = Remove(@, trove_id)], manager)

BoldProtocol_create_batch(v, manager, interest_rate, management_fee) ==
    IF RLt(interest_rate, MIN_ANNUAL_INTEREST_RATE)
       \/ RGt(interest_rate, MAX_ANNUAL_INTEREST_RATE)
    THEN Raise(v, "ValueError")
    ELSE IF RGt(management_fee, MAX_MANAGEMENT_FEE) THEN Raise(v, "ValueError")
    ELSE [v EXCEPT
            !.batches = (manager :>
                            [interest_rate |-> interest_rate,
                             management_fee |-> management_fee,
                             troves |-> <<>>, total_debt |-> Zero,
                             total_collateral |-> Zero,
                             last_update |-> v.current_time]) @@ @]

(* join_batch once the interest is applied and the ratio checked. *)
BoldProtocol_join_batch_enter(v, trove_id, batch_manager) ==
    IF ~Ok(v) THEN v
    ELSE InterestBatch_update_totals(
             [v EXCEPT
                !.troves[trove_id].batch_manager = batch_manager,
                !.troves[trove_id].interest_rate = v.batches[batch_manager].interest_rate,
                !.batches[batch_manager].troves = Append(@, trove_id)],
             batch_manager)

BoldProtocol_join_batch(v, trove_id, batch_manager) ==
    IF trove_id \notin DOMAIN v.troves THEN Raise(v, "ValueError")
    ELSE IF batch_manager \notin DOMAIN v.batches THEN Raise(v, "ValueError")
    ELSE LET v1 == BoldProtocol__apply_interest(v, trove_id)
             trove == v1.troves[trove_id]
         IN  IF RLt(Trove_icr(trove, v1.eth_price), RAdd(MCR, BCR_ALL))
             THEN Raise(v1, "ValueError")
             ELSE BoldProtocol_join_batch_enter(
                      IF trove.batch_manager # NoBatch
                      THEN BoldProtocol_leave_batch(v1, trove_id, trove.batch_manager)
                      ELSE v1,
                      trove_id, batch_manager)

(* liquidate_trove, "Update system state". *)
BoldProtocol_close_totals(v, trove) ==
    [v EXCEPT !.total_system_debt = RSub(@, trove.debt),
              !.total_collateral = RSub(@, trove.collateral)]

(* liquidate_trove, "del self.troves[trove_id]". *)
BoldProtocol_remove_trove(v, trove_id) ==
    IF ~Ok(v) THEN v
    ELSE [v EXCEPT !.troves = [id \in DOMAIN v.troves \ {trove_id} |-> v.troves[id]]]

BoldProtocol_liquidate_trove(v, trove_id) ==
    IF trove_id \notin DOMAIN v.troves THEN Raise(v, "ValueError")
    ELSE LET trove == v.troves[trove_id]
             gas_comp_eth == RMin(RMul(trove.collateral, Rat(5, 1000)), I(2))
             offset_result == StabilityPool_offset_debt(
                           v, trove.debt,
                           RSub(RMul(trove.collateral,
                                     RSub(One, LIQUIDATION_PENALTY_SP)),
                                gas_comp_eth))
             v1 == offset_result[1]
         IN  IF RGe(Trove_icr(trove, v.eth_price), MCR) THEN Raise(v, "ValueError")
             ELSE BoldProtocol_remove_trove(
                      IF trove.batch_manager # NoBatch
                      THEN BoldProtocol_leave_batch(
                               BoldProtocol_close_totals(v1, trove), trove_id,
                               trove.batch_manager)
                      ELSE BoldProtocol_close_totals(v1, trove),
                      trove_id)

(* The first loop of update_eth_price over troves 1 .. next_trove_id - 1:  *)
(* interest is applied, then the trove is noted when below MCR.            *)
RECURSIVE BoldProtocol_find_liquidatable(_, _, _)
BoldProtocol_find_liquidatable(v, new_price, trove_id) ==
    IF trove_id >= v.next_trove_id THEN [v |-> v, found |-> <<>>]
    ELSE IF trove_id \notin DOMAIN v.troves
    THEN BoldProtocol_find_liquidatable(v, new_price, trove_id + 1)
    ELSE LET v1 == BoldProtocol__apply_interest(v, trove_id)
             rest == BoldProtocol_find_liquidatable(v1, new_price, trove_id + 1)
         IN  IF RLt(Trove_icr(v1.troves[trove_id], new_price), MCR)
             THEN [rest EXCEPT !.found = <<trove_id>> \o @]
             ELSE rest

RECURSIVE BoldProtocol_liquidate_all(_, _)
BoldProtocol_liquidate_all(v, found) ==
    IF found = <<>> \/ ~Ok(v) THEN v
    ELSE BoldProtocol_liquidate_all(BoldProtocol_liquidate_trove(v, Head(found)),
                                    Tail(found))

(* update_eth_price recording the price and applying the interest, with no *)
(* liquidation.                                                            *)
update_eth_price_without_liquidation(v, new_price) ==
    BoldProtocol_find_liquidatable([v EXCEPT !.eth_price = new_price], new_price, 1).v

BoldProtocol_update_eth_price(v, new_price) ==
    LET scan == BoldProtocol_find_liquidatable([v EXCEPT !.eth_price = new_price],
                                               new_price, 1)
    IN  BoldProtocol_liquidate_all(scan.v, scan.found)


-----------------------------------------------------------------------------
(* The system after BoldProtocolEconomicModel.__init__.                    *)

NoCall == [op |-> "none", arg |-> 0, exc |-> "none", vals |-> NoLiquidation]

Genesis ==
    [troves |-> <<>>, batches |-> <<>>, reward_snapshots |-> <<>>,
     trove_ids |-> <<>>,
     tm |-> [total_stakes |-> Zero, total_stakes_snapshot |-> Zero,
             total_collateral_snapshot |-> Zero, L_coll |-> Zero,
             L_bold_debt |-> Zero, last_zombie_trove_id |-> 0,
             last_coll_error_redistribution |-> Zero,
             last_bold_debt_error_redistribution |-> Zero,
             shutdown_time |-> 0],
     ap |-> [coll_balance |-> Zero, agg_recorded_debt |-> Zero,
             agg_weighted_debt_sum |-> Zero, last_agg_update_time |-> 0,
             shutdown_time |-> 0, agg_batch_management_fees |-> Zero,
             agg_weighted_batch_management_fee_sum |-> Zero,
             last_agg_batch_management_fees_update_time |-> 0],
     dp |-> [coll_balance |-> Zero, bold_debt |-> Zero],
     csp |-> [coll_balance |-> Zero,
              balances |-> [a \in {_get_trove_owner(i) : i \in TroveIds} |-> Zero]],
     sp |-> [coll_balance |-> Zero, total_bold_deposits |-> Zero,
             yield_gains_owed |-> Zero, yield_gains_pending |-> Zero,
             deposits |-> [a \in Accounts |-> Zero],
             deposit_snapshots |-> [a \in Accounts |-> NoSnapshots],
             stashed_coll |-> [a \in Accounts |-> Zero],
             P |-> I(P_PRECISION), current_scale |-> 0,
             scale_to_S |-> [i \in 0..0 |-> Zero],
             scale_to_B |-> [i \in 0..0 |-> Zero]],
     token |-> [a \in Accounts \cup {"stability_pool"} |-> Zero],
     price |-> I(2000), now |-> 1, current_time |-> 1, next_trove_id |-> 1,
     paid |-> [in |-> Zero, out |-> Zero], exc |-> "none"]

(* The variables hold the machine m, with `used` calls of the budget spent. *)
Install(m, used) ==
    /\ troves = m.troves
    /\ batches = m.batches
    /\ reward_snapshots = m.reward_snapshots
    /\ trove_ids = m.trove_ids
    /\ trove_manager = m.tm
    /\ active_pool = m.ap
    /\ default_pool = m.dp
    /\ coll_surplus_pool = m.csp
    /\ stability_pool = m.sp
    /\ bold_token = m.token
    /\ price_feed = m.price
    /\ next_trove_id = m.next_trove_id
    /\ now = m.now
    /\ current_time = m.current_time
    /\ paid = m.paid
    /\ protocol = BoldProtocol_init
    /\ calls = used
    /\ last = NoCall

(* A run constructs one of the two programs. *)
Init ==
    /\ program \in {"BoldProtocolEconomicModel", "BoldProtocol"}
    /\ Install(Genesis, 0)

(* The amounts are exact fractions, and every division by an accrued debt  *)
(* or by the redemption bonus multiplies their denominators.  A run is     *)
(* followed for as long as the denominators below stay within              *)
(* MaxDenominator.                                                         *)
Denominators(m) ==
    {m.tm.L_coll[2], m.tm.L_bold_debt[2], m.tm.total_stakes[2],
     m.tm.total_collateral_snapshot[2], m.tm.total_stakes_snapshot[2],
     m.ap.coll_balance[2], m.ap.agg_recorded_debt[2], m.ap.agg_weighted_debt_sum[2],
     m.dp.coll_balance[2], m.dp.bold_debt[2], m.csp.coll_balance[2],
     m.sp.coll_balance[2], m.sp.total_bold_deposits[2], m.paid.out[2]}
    \cup {m.troves[i].debt[2] : i \in DOMAIN m.troves}
    \cup {m.troves[i].coll[2] : i \in DOMAIN m.troves}
    \cup {m.troves[i].batch_debt_shares[2] : i \in DOMAIN m.troves}
    \cup {m.batches[b].debt[2] : b \in DOMAIN m.batches}
    \cup {m.batches[b].total_debt_shares[2] : b \in DOMAIN m.batches}
    \cup {m.token[a][2] : a \in DOMAIN m.token}

WithinRange(m) == \A d \in Denominators(m) : d <= MaxDenominator

(* A call ends in the machine r; what it assigned before raising stays. *)
Returns(r, op, arg, vals) ==
    /\ program = "BoldProtocolEconomicModel"
    /\ calls < MaxCalls
    /\ WithinRange(Machine)
    /\ troves' = r.troves
    /\ batches' = r.batches
    /\ reward_snapshots' = r.reward_snapshots
    /\ trove_ids' = r.trove_ids
    /\ trove_manager' = r.tm
    /\ active_pool' = r.ap
    /\ default_pool' = r.dp
    /\ coll_surplus_pool' = r.csp
    /\ stability_pool' = r.sp
    /\ bold_token' = r.token
    /\ price_feed' = r.price
    /\ next_trove_id' = r.next_trove_id
    /\ current_time' = r.current_time
    /\ paid' = r.paid
    /\ calls' = calls + 1
    /\ last' = [op |-> op, arg |-> arg, exc |-> r.exc, vals |-> vals]
    /\ UNCHANGED <<now, program, protocol>>


(* What liquidate returns (or had computed when it raised). *)
liquidate_values(m, trove_id) ==
    IF \/ m.tm.shutdown_time # 0
       \/ trove_id \notin DOMAIN m.troves
       \/ RGe(get_current_icr(m, trove_id, m.price), MCR)
    THEN NoLiquidation
    ELSE _liquidate(m, trove_id, m.sp.total_bold_deposits, m.price).single_liquidation

-----------------------------------------------------------------------------
(* The calls the environment makes.                                        *)

OpenTrove ==
    \E owner \in Accounts, collateral \in OpenColls, debt \in OpenDebts,
       interest_rate \in OpenRates :
        /\ next_trove_id <= MaxTroves
        /\ Returns(open_trove(Machine, owner, collateral, debt, interest_rate),
                   "open_trove", next_trove_id, NoLiquidation)

CreateBatch ==
    \E manager \in Managers, interest_rate \in BatchRates, fee \in BatchFees :
        /\ manager \notin DOMAIN batches
        /\ Returns(create_batch(Machine, manager, interest_rate, fee),
                   "create_batch", 0, NoLiquidation)

(* A trove joins a batch once: the environment does not make it rejoin. *)
JoinBatch ==
    \E trove_id \in TroveIds, manager \in Managers :
        /\ trove_id \in DOMAIN troves
               => troves[trove_id].interest_batch_manager = NoBatch
        /\ Returns(join_batch(Machine, trove_id, manager), "join_batch", trove_id,
                   NoLiquidation)

ProvideToStabilityPool ==
    \E depositor \in Accounts, amount \in TopUps :
        Returns(provide_to_stability_pool(Machine, depositor, amount, TRUE),
                "provide_to_sp", 0, NoLiquidation)

WithdrawFromStabilityPool ==
    \E depositor \in Accounts, amount \in Withdrawals, do_claim \in BOOLEAN :
        Returns(withdraw_from_sp(Machine, depositor, amount, do_claim),
                "withdraw_from_sp", 0, NoLiquidation)

ClaimAllCollGains ==
    \E depositor \in Accounts :
        Returns(claim_all_coll_gains(Machine, depositor), "claim_all_coll_gains", 0,
                NoLiquidation)

ClaimColl ==
    \E trove_id \in TroveIds :
        Returns(claim_coll(Machine, _get_trove_owner(trove_id)), "claim_coll", trove_id,
                NoLiquidation)

LiquidateTrove ==
    \E trove_id \in TroveIds :
        Returns(liquidate(Machine, trove_id), "liquidate", trove_id,
                liquidate_values(Machine, trove_id))

BatchLiquidateTroves ==
    \E trove_array \in TroveArrays :
        Returns(batch_liquidate_troves(Machine, trove_array), "batch_liquidate_troves",
                0, batch_liquidate_result(Machine, trove_array).totals)

RedeemCollateral ==
    \E redeemer \in Accounts, bold_amount \in RedeemAmounts :
        Returns(redeem_collateral(Machine, redeemer, bold_amount, 0),
                "redeem_collateral", 0, NoLiquidation)

UrgentRedemption ==
    \E redeemer \in Accounts, bold_amount \in RedeemAmounts,
       trove_array \in TroveArrays, min_collateral \in MinCollaterals :
        Returns(urgent_redemption(Machine, redeemer, bold_amount, trove_array,
                                  min_collateral),
                "urgent_redemption", 0, NoLiquidation)

Shutdown == Returns(shutdown(Machine), "shutdown", 0, NoLiquidation)

SetPrice ==
    \E new_price \in Prices :
        /\ new_price # price_feed
        /\ Returns([Machine EXCEPT !.price = new_price], "set_price", 0, NoLiquidation)

UpdatePrice ==
    \E new_price \in Prices :
        /\ new_price # price_feed
        /\ Returns(update_price(Machine, new_price), "update_price", 0, NoLiquidation)

UpdateTime ==
    /\ current_time < MaxTime
    /\ Returns(update_time(Machine, 1), "update_time", 0, NoLiquidation)

(* The wall clock advances. *)
Tick ==
    /\ program = "BoldProtocolEconomicModel"
    /\ now < MaxTime
    /\ now' = now + 1
    /\ UNCHANGED <<troves, batches, reward_snapshots, trove_ids, trove_manager,
                   active_pool, default_pool, coll_surplus_pool, stability_pool,
                   bold_token, price_feed, next_trove_id, current_time, paid,
                   program, protocol, calls, last>>

(* A call of the BoldProtocol object ends in v. *)
ProtocolReturns(v, op, arg) ==
    /\ program = "BoldProtocol"
    /\ calls < MaxCalls
    /\ protocol' = [v EXCEPT !.exc = "none"]
    /\ calls' = calls + 1
    /\ last' = [op |-> op, arg |-> arg, exc |-> v.exc, vals |-> NoLiquidation]
    /\ UNCHANGED <<troves, batches, reward_snapshots, trove_ids, trove_manager,
                   active_pool, default_pool, coll_surplus_pool, stability_pool,
                   bold_token, price_feed, next_trove_id, now, current_time, paid,
                   program>>

ProtocolOpenTrove ==
    \E owner \in Accounts, collateral \in OpenColls, debt \in OpenDebts,
       interest_rate \in OpenRates :
        /\ protocol.next_trove_id <= MaxTroves
        /\ ProtocolReturns(BoldProtocol_open_trove(protocol, owner, collateral, debt,
                                                   interest_rate),
                           "BoldProtocol.open_trove", protocol.next_trove_id)

ProtocolDeposit ==
    \E addr \in Accounts, amount \in TopUps :
        ProtocolReturns(StabilityPool_deposit(protocol, addr, amount),
                        "StabilityPool.deposit", 0)

ProtocolUpdateTime ==
    /\ protocol.current_time < MaxTime
    /\ ProtocolReturns(BoldProtocol_update_time(protocol, 1),
                       "BoldProtocol.update_time", 0)

ProtocolUpdateEthPrice ==
    \E new_price \in Prices :
        /\ new_price # protocol.eth_price
        /\ ProtocolReturns(BoldProtocol_update_eth_price(protocol, new_price),
                           "BoldProtocol.update_eth_price", 0)

ProtocolLiquidateTrove ==
    \E trove_id \in TroveIds :
        ProtocolReturns(BoldProtocol_liquidate_trove(protocol, trove_id),
                        "BoldProtocol.liquidate_trove", trove_id)

Next ==
    \/ OpenTrove
    \/ CreateBatch
    \/ JoinBatch
    \/ ProvideToStabilityPool
    \/ WithdrawFromStabilityPool
    \/ ClaimAllCollGains
    \/ ClaimColl
    \/ LiquidateTrove
    \/ BatchLiquidateTroves
    \/ RedeemCollateral
    \/ UrgentRedemption
    \/ Shutdown
    \/ SetPrice
    \/ UpdatePrice
    \/ UpdateTime
    \/ Tick
    \/ ProtocolOpenTrove
    \/ ProtocolDeposit
    \/ ProtocolUpdateTime
    \/ ProtocolUpdateEthPrice
    \/ ProtocolLiquidateTrove

Spec == Init /\ [][Next]_vars

-----------------------------------------------------------------------------
(* Prepared systems.  The runs from the constructor are cut after MaxCalls *)
(* calls; to follow what happens further on, SpecSetup also starts from    *)
(* the systems that the calls below leave behind, each computed by the     *)
(* operations themselves, and follows those for MaxSteps calls.            *)

TwoTroves(m, collateral1, collateral2) ==
    LET owner == CHOOSE a \in Accounts : TRUE
        debt == CHOOSE d \in OpenDebts : TRUE
        interest_rate == CHOOSE r \in OpenRates : TRUE
    IN  open_trove(open_trove(m, owner, collateral1, debt, interest_rate),
                   owner, collateral2, debt, interest_rate)

Batched(m) ==
    LET manager == CHOOSE a \in Managers : TRUE
        interest_rate == CHOOSE r \in BatchRates : TRUE
        fee == CHOOSE f \in BatchFees : TRUE
    IN  join_batch(join_batch(create_batch(m, manager, interest_rate, fee),
                              1, manager),
                   2, manager)

Funded(m, amount) ==
    provide_to_stability_pool(m, CHOOSE a \in Accounts : TRUE, amount, TRUE)

(* Two troves and a deposit. *)
Setups ==
    {Funded(TwoTroves(Genesis, c1, c2), amount) :
         c1 \in OpenColls, c2 \in OpenColls, amount \in TopUps}

InitSetup ==
    \/ Init
    \/ /\ program = "BoldProtocolEconomicModel"
       /\ \E m \in Setups : Ok(m) /\ Install(m, MaxCalls - MaxSteps)

SpecSetup == InitSetup /\ [][Next]_vars

(* The same with both troves in one batch.  A redemption from a batch that *)
(* has accrued interest leaves the range of the integers within the call,  *)
(* so these systems are followed through deposits, price moves,            *)
(* liquidations and shutdown only, at one clock reading.                   *)
BatchSetups ==
    {Funded(Batched(TwoTroves(Genesis, c1, c2)), amount) :
         c1 \in OpenColls, c2 \in OpenColls, amount \in TopUps}

InitBatch ==
    /\ program = "BoldProtocolEconomicModel"
    /\ \E m \in BatchSetups : Ok(m) /\ Install(m, MaxCalls - MaxSteps)

NextBatch ==
    \/ ProvideToStabilityPool
    \/ WithdrawFromStabilityPool
    \/ ClaimAllCollGains
    \/ LiquidateTrove
    \/ BatchLiquidateTroves
    \/ Shutdown
    \/ SetPrice
    \/ UpdatePrice

SpecBatch == InitBatch /\ [][NextBatch]_vars

-----------------------------------------------------------------------------
(* Redemptions.  Two troves opened with any of two interest rates, in      *)
(* either order, followed through redemptions of three sizes, price moves, *)
(* the clock, shutdown and urgent redemptions.                             *)

RedeemRates == {Rat(1, 2), Rat(5, 2)}
RedeemLots == {I(1000), I(2500), I(4000)}

RedeemSetups ==
    {open_trove(open_trove(Genesis, CHOOSE a \in Accounts : TRUE, c1,
                           CHOOSE d \in OpenDebts : TRUE, r1),
                CHOOSE a \in Accounts : TRUE, c2, CHOOSE d \in OpenDebts : TRUE, r2) :
         c1 \in OpenColls, c2 \in OpenColls, r1 \in RedeemRates, r2 \in RedeemRates}

InitRedeem ==
    /\ program = "BoldProtocolEconomicModel"
    /\ \E m \in RedeemSetups : Ok(m) /\ Install(m, MaxCalls - MaxSteps)

RedeemLot ==
    \E redeemer \in Accounts, bold_amount \in RedeemLots :
        Returns(redeem_collateral(Machine, redeemer, bold_amount, 0),
                "redeem_collateral", bold_amount[1], NoLiquidation)

NextRedeem ==
    \/ RedeemLot
    \/ UrgentRedemption
    \/ Shutdown
    \/ SetPrice
    \/ Tick

SpecRedeem == InitRedeem /\ [][NextRedeem]_vars

(* The compounded deposit as a function of the scales.  A deposit that has *)
(* lived through scale changes is drawn with the pool it is left in: the   *)
(* depositor's deposit and snapshots, the pool's P and current_scale, and  *)
(* as total_bold_deposits the depositor's exact share.                     *)
ScaleDeposits == TopUps \cup {I(300000000)}
ScaleDiffs == {0, 1, 7, 8, 9}
SnapshotScales == {0, 1}
SnapshotPs == {I(P_PRECISION), I(P_PRECISION \div 2)}
PoolPs == {I(P_PRECISION), I(P_PRECISION \div 2), I(P_PRECISION \div SCALE_FACTOR)}

ExactShare(deposit, P, snapshot_P, scale_diff) ==
    RDiv(RMulDiv(deposit, P, snapshot_P), I(Pow(SCALE_FACTOR, scale_diff)))

ScaledPool(depositor, deposit, snapshot_scale, snapshot_P, P, scale_diff) ==
    [Genesis EXCEPT
       !.sp.deposits[depositor] = deposit,
       !.sp.deposit_snapshots[depositor] =
           [S |-> Zero, P |-> snapshot_P, B |-> Zero, scale |-> snapshot_scale],
       !.sp.P = P,
       !.sp.current_scale = snapshot_scale + scale_diff,
       !.sp.scale_to_S = [i \in 0..(snapshot_scale + scale_diff) |-> Zero],
       !.sp.scale_to_B = [i \in 0..(snapshot_scale + scale_diff) |-> Zero],
       !.sp.total_bold_deposits = ExactShare(deposit, P, snapshot_P, scale_diff),
       !.token["stability_pool"] = ExactShare(deposit, P, snapshot_P, scale_diff)]

InitScale ==
    /\ program = "BoldProtocolEconomicModel"
    /\ \E depositor \in Accounts, deposit \in ScaleDeposits,
          snapshot_scale \in SnapshotScales, snapshot_P \in SnapshotPs,
          P \in PoolPs, scale_diff \in ScaleDiffs :
           Install(ScaledPool(depositor, deposit, snapshot_scale, snapshot_P, P, scale_diff), 0)

GetCompoundedBoldDeposit ==
    \E depositor \in Accounts :
        /\ last' = [NoCall EXCEPT !.op = "get_compounded_bold_deposit",
                                  !.arg = get_compounded_bold_deposit(Machine, depositor)[1]]
        /\ UNCHANGED <<troves, batches, reward_snapshots, trove_ids, trove_manager,
                       active_pool, default_pool, coll_surplus_pool, stability_pool,
                       bold_token, price_feed, next_trove_id, now, current_time, paid,
                       program, protocol, calls>>

SpecScale == InitScale /\ [][GetCompoundedBoldDeposit]_vars

-----------------------------------------------------------------------------
(* BoldProtocol on its own, with its batches.                              *)

ProtocolBatchRates == {Rat(2, 5)}

ProtocolCreateBatch ==
    \E manager \in Managers, interest_rate \in ProtocolBatchRates,
       management_fee \in BatchFees :
        ProtocolReturns(BoldProtocol_create_batch(protocol, manager, interest_rate,
                                                  management_fee),
                        "BoldProtocol.create_batch", 0)

ProtocolJoinBatch ==
    \E trove_id \in TroveIds, batch_manager \in Managers :
        ProtocolReturns(BoldProtocol_join_batch(protocol, trove_id, batch_manager),
                        "BoldProtocol.join_batch", trove_id)

ProtocolApplyInterest ==
    \E trove_id \in DOMAIN protocol.troves :
        ProtocolReturns(BoldProtocol__apply_interest(protocol, trove_id),
                        "BoldProtocol._apply_interest", trove_id)

InitProtocol ==
    /\ program = "BoldProtocol"
    /\ Install(Genesis, 0)

NextProtocol ==
    \/ ProtocolOpenTrove
    \/ ProtocolCreateBatch
    \/ ProtocolJoinBatch
    \/ ProtocolApplyInterest
    \/ ProtocolDeposit
    \/ ProtocolUpdateTime
    \/ ProtocolUpdateEthPrice
    \/ ProtocolLiquidateTrove

SpecProtocol == InitProtocol /\ [][NextProtocol]_vars

-----------------------------------------------------------------------------
(* The CollSurplusPool on its own: account_surplus and claim_coll in any   *)
(* order.                                                                  *)

Owners == {_get_trove_owner(i) : i \in TroveIds}
SurplusAmounts == {RNeg(One), Zero, One, I(2)}

AccountSurplus ==
    \E account \in Owners, amount \in SurplusAmounts :
        Returns(account_surplus(Machine, account, amount), "account_surplus", 0,
                NoLiquidation)

InitSurplus ==
    /\ program = "BoldProtocolEconomicModel"
    /\ Install(Genesis, 0)

NextSurplus ==
    \/ AccountSurplus
    \/ ClaimColl

SpecSurplus == InitSurplus /\ [][NextSurplus]_vars

-----------------------------------------------------------------------------
(* The ActivePool and the DefaultPool on their own: their transfer methods *)
(* in any order.                                                           *)

PoolAmounts == {RNeg(One), Zero, One, I(2)}

PoolReturns(r, op) == Returns(r, op, 0, NoLiquidation)

ActivePoolSendColl ==
    \E amount \in PoolAmounts :
        PoolReturns(ap_send_coll(Machine, amount), "ActivePool.send_coll")

ActivePoolSendCollToDefaultPool ==
    \E amount \in PoolAmounts :
        PoolReturns(ap_send_coll_to_default_pool(Machine, amount),
                    "ActivePool.send_coll_to_default_pool")

ActivePoolReceiveColl ==
    \E amount \in PoolAmounts :
        PoolReturns(ap_receive_coll(Machine, amount), "ActivePool.receive_coll")

DefaultPoolReceiveColl ==
    \E amount \in PoolAmounts :
        PoolReturns(dp_receive_coll(Machine, amount), "DefaultPool.receive_coll")

DefaultPoolSendCollToActivePool ==
    \E amount \in PoolAmounts :
        PoolReturns(dp_send_coll_to_active_pool(Machine, amount),
                    "DefaultPool.send_coll_to_active_pool")

DefaultPoolIncreaseBoldDebt ==
    \E amount \in PoolAmounts :
        PoolReturns(dp_increase_bold_debt(Machine, amount),
                    "DefaultPool.increase_bold_debt")

DefaultPoolDecreaseBoldDebt ==
    \E amount \in PoolAmounts :
        PoolReturns(dp_decrease_bold_debt(Machine, amount),
                    "DefaultPool.decrease_bold_debt")

InitPools ==
    /\ program = "BoldProtocolEconomicModel"
    /\ Install(Genesis, 0)

NextPools ==
    \/ ActivePoolSendColl
    \/ ActivePoolSendCollToDefaultPool
    \/ ActivePoolReceiveColl
    \/ DefaultPoolReceiveColl
    \/ DefaultPoolSendCollToActivePool
    \/ DefaultPoolIncreaseBoldDebt
    \/ DefaultPoolDecreaseBoldDebt

SpecPools == InitPools /\ [][NextPools]_vars

-----------------------------------------------------------------------------
(* The StabilityPool of vault_model.py with several depositors: deposits,  *)
(* withdrawals, direct offsets, and the offsets made by the liquidations   *)
(* of update_eth_price.                                                    *)

Depositors == {"sp_user_1", "sp_user_2"}

PoolSums == {Zero, I(1000), I(3000)}

PoolOffsets == {I(1000), I(5000)}

PoolDeposit ==
    \E addr \in Depositors, amount \in PoolSums :
        ProtocolReturns(StabilityPool_deposit(protocol, addr, amount),
                        "StabilityPool.deposit", 0)

PoolWithdraw ==
    \E addr \in Depositors, amount \in PoolSums :
        ProtocolReturns(StabilityPool_withdraw(protocol, addr, amount),
                        "StabilityPool.withdraw", 0)

PoolOffsetDebt ==
    \E debt_to_offset \in PoolOffsets :
        ProtocolReturns(StabilityPool_offset_debt(protocol, debt_to_offset, One)[1],
                        "StabilityPool.offset_debt", 0)

NextDeposits ==
    \/ PoolDeposit
    \/ PoolWithdraw
    \/ PoolOffsetDebt
    \/ ProtocolOpenTrove
    \/ ProtocolUpdateEthPrice
    \/ ProtocolLiquidateTrove

SpecDeposits == InitProtocol /\ [][NextDeposits]_vars

-----------------------------------------------------------------------------
(* StabilityPool.offset called on a funded pool: BOLD is minted and        *)
(* provided, and debts up to all but 2 of the pool are offset, so that P   *)
(* is rescaled by one or by several factors in one call.                   *)

RescalingDebts ==
    LET total == stability_pool.total_bold_deposits
    IN  {RFloorDiv(total, I(2)), RFloorDiv(RMul(total, I(9)), I(10)),
         RMax(RSub(total, I(2)), Zero)}

MintBold ==
    \E recipient \in Accounts, amount \in TopUps :
        Returns(token_mint(Machine, recipient, amount), "BoldToken.mint", 0,
                NoLiquidation)

OffsetDebt ==
    \E debt_to_offset \in RescalingDebts :
        Returns(offset(Machine, debt_to_offset, One), "StabilityPool.offset", 0,
                NoLiquidation)

InitOffset ==
    /\ program = "BoldProtocolEconomicModel"
    /\ Install(ap_receive_coll(Genesis, I(10)), 0)

NextOffset ==
    \/ MintBold
    \/ ProvideToStabilityPool
    \/ OffsetDebt

SpecOffset == InitOffset /\ [][NextOffset]_vars

-----------------------------------------------------------------------------
(* The Stability Pool with two depositors who hold BOLD: deposits with and *)
(* without claiming, withdrawals, claims, offsets of half and of the whole *)
(* pool, and yield.  The ActivePool holds the collateral of the offsets.   *)

PoolDepositors == {"d1", "d2"}

FundedPool ==
    ap_receive_coll(
        [Genesis EXCEPT
           !.sp.deposits = [d \in PoolDepositors |-> Zero],
           !.sp.deposit_snapshots = [d \in PoolDepositors |-> NoSnapshots],
           !.sp.stashed_coll = [d \in PoolDepositors |-> Zero],
           !.token = [d \in PoolDepositors \cup {"stability_pool"} |->
                          IF d \in PoolDepositors THEN I(3000) ELSE Zero]],
        I(10))

PoolProvide ==
    \E depositor \in PoolDepositors, do_claim \in BOOLEAN :
        Returns(provide_to_stability_pool(Machine, depositor, I(1000), do_claim),
                "provide_to_sp", 0, NoLiquidation)

PoolWithdrawFromSp ==
    \E depositor \in PoolDepositors :
        Returns(withdraw_from_sp(Machine, depositor, I(500), TRUE),
                "withdraw_from_sp", 0, NoLiquidation)

PoolClaimAllCollGains ==
    \E depositor \in PoolDepositors :
        Returns(claim_all_coll_gains(Machine, depositor), "claim_all_coll_gains", 0,
                NoLiquidation)

PoolOffset ==
    \E debt_to_offset \in {RFloorDiv(stability_pool.total_bold_deposits, I(2)),
                           stability_pool.total_bold_deposits} :
        Returns(offset(Machine, debt_to_offset, One), "StabilityPool.offset", 0,
                NoLiquidation)

PoolTriggerBoldRewards ==
    Returns(trigger_bold_rewards(Machine, I(100)), "trigger_bold_rewards", 0,
            NoLiquidation)

InitSolvency ==
    /\ program = "BoldProtocolEconomicModel"
    /\ Install(FundedPool, 0)

NextSolvency ==
    \/ PoolProvide
    \/ PoolWithdrawFromSp
    \/ PoolClaimAllCollGains
    \/ PoolOffset
    \/ PoolTriggerBoldRewards

SpecSolvency == InitSolvency /\ [][NextSolvency]_vars

-----------------------------------------------------------------------------
(* Properties.                                                             *)

(* The collateral held by the four pools, plus what was paid out to        *)
(* external accounts, minus what was paid in.                              *)
CollateralLedger ==
    RSub(RAdd(RAdd(RAdd(active_pool.coll_balance, default_pool.coll_balance),
                   RAdd(stability_pool.coll_balance, coll_surplus_pool.coll_balance)),
              paid.out),
         paid.in)

RECURSIVE SumEntireDebt(_, _)
SumEntireDebt(m, ids) ==
    IF ids = {} THEN Zero
    ELSE LET i == CHOOSE x \in ids : TRUE
         IN  RAdd(IF _is_active_or_zombie(m.troves[i].status)
                  THEN _get_latest_trove_data(m, i).entire_debt ELSE Zero,
                  SumEntireDebt(m, ids \ {i}))

(* The read times that are not before any update time recorded so far. *)
ReadTimes ==
    {t \in 1..MaxTime :
        /\ t >= active_pool.last_agg_update_time
        /\ t >= active_pool.last_agg_batch_management_fees_update_time
        /\ \A i \in DOMAIN troves : t >= troves[i].last_debt_update_time
        /\ \A b \in DOMAIN batches : t >= batches[b].last_debt_update_time}

RECURSIVE SumStakes(_)
SumStakes(ids) ==
    IF ids = {} THEN Zero
    ELSE LET i == CHOOSE x \in ids : TRUE
         IN  RAdd(IF _is_active_or_zombie(troves[i].status) THEN troves[i].stake ELSE Zero,
                  SumStakes(ids \ {i}))

(* C3: after every operation TroveManager.total_stakes equals the sum of   *)
(* the stake fields of all troves whose status is Active or Zombie, and    *)
(* every closed trove has stake 0.                                         *)
C3_TotalStakes ==
    /\ trove_manager.total_stakes = SumStakes(DOMAIN troves)
    /\ \A i \in DOMAIN troves :
           ~_is_active_or_zombie(troves[i].status) => troves[i].stake = Zero

C3_Witness ==
    /\ last.op \in {"liquidate", "batch_liquidate_troves", "redeem_collateral", "urgent_redemption"}
    /\ last.exc = "none"
    /\ \E i \in DOMAIN troves : ~_is_active_or_zombie(troves[i].status)
    /\ \E i \in DOMAIN troves : _is_active_or_zombie(troves[i].status) /\ RGt(troves[i].stake, Zero)

(* The fields of the Stability Pool that an offset works on. *)
OffsetState(sp) ==
    <<sp.P, sp.current_scale, sp.scale_to_S, sp.scale_to_B,
      sp.total_bold_deposits, sp.coll_balance>>

(* C4: the Stability Pool product P is strictly positive in every          *)
(* reachable state: StabilityPool.offset called with debt_to_offset equal  *)
(* to (or greater than) total_bold_deposits fails with an error, and the   *)
(* rejected offset leaves P, current_scale, scale_to_S, scale_to_B,        *)
(* total_bold_deposits and coll_balance as they were before the call.      *)
C4_RejectedOffsetLeavesPool ==
    /\ RGt(stability_pool.P, Zero)
    /\ \A excess \in {Zero, One} : \A coll_to_add \in OpenColls :
           LET r == offset(Machine, RAdd(stability_pool.total_bold_deposits, excess), coll_to_add)
           IN  /\ r.exc # "none"
               /\ OffsetState(r.sp) = OffsetState(stability_pool)

(* What a liquidation works on: the trove registry, the ordered id list,   *)
(* total_stakes, the batch records, L_coll / L_bold_debt, the              *)
(* CollSurplusPool and the balances of the pools.                          *)
LiquidationState(m) ==
    <<m.troves, m.trove_ids, m.tm.total_stakes, m.batches, m.tm.L_coll, m.tm.L_bold_debt,
      m.csp, m.ap.coll_balance, m.ap.agg_recorded_debt, m.dp.coll_balance, m.dp.bold_debt,
      m.sp.coll_balance, m.sp.total_bold_deposits>>

(* C5: liquidation is all-or-nothing.  If TroveManager.liquidate or        *)
(* batch_liquidate_troves raises an error at any step, the trove registry, *)
(* trove_ids, total_stakes, the batch records, L_coll / L_bold_debt, the   *)
(* CollSurplusPool balances and every pool balance are as before the call. *)
C5_LiquidationAllOrNothing ==
    WithinRange(Machine) =>
        /\ \A trove_id \in TroveIds :
               LET r == liquidate(Machine, trove_id)
               IN  r.exc # "none" => LiquidationState(r) = LiquidationState(Machine)
        /\ \A trove_array \in TroveArrays :
               LET r == batch_liquidate_troves(Machine, trove_array)
               IN  r.exc # "none" => LiquidationState(r) = LiquidationState(Machine)

(* C6: liquidation eligibility.  A trove's ICR is collateral * price / debt *)
(* (infinite when the debt is zero), and a single-trove liquidation        *)
(* (TroveManager.liquidate, BoldProtocol.liquidate_trove) is accepted only *)
(* when ICR < MCR: for a trove with ICR >= MCR the call raises ValueError  *)
(* and changes no state.                                                   *)
C6_Eligibility ==
    /\ WithinRange(Machine) =>
           \A trove_id \in DOMAIN troves :
               LET trove == _get_latest_trove_data(Machine, trove_id)
                   icr == get_current_icr(Machine, trove_id, price_feed)
               IN  /\ icr = IF trove.entire_debt = Zero THEN Inf
                            ELSE RDiv(RMul(trove.entire_coll, price_feed), trove.entire_debt)
                   /\ RGe(icr, MCR) => liquidate(Machine, trove_id) = Raise(Machine, "ValueError")
    /\ \A trove_id \in DOMAIN protocol.troves :
           LET icr == Trove_icr(protocol.troves[trove_id], protocol.eth_price)
           IN  /\ icr = IF protocol.troves[trove_id].debt = Zero THEN Inf
                        ELSE RDiv(RMul(protocol.troves[trove_id].collateral, protocol.eth_price),
                                  protocol.troves[trove_id].debt)
               /\ RGe(icr, MCR) =>
                      BoldProtocol_liquidate_trove(protocol, trove_id) = Raise(protocol, "ValueError")

C6_Witness ==
    /\ last.op = "liquidate"
    /\ last.exc = "ValueError"
    /\ trove_manager.shutdown_time = 0
    /\ last.arg \in DOMAIN troves
    /\ _is_active_or_zombie(troves[last.arg].status)
    /\ RGe(get_current_icr(Machine, last.arg, price_feed), MCR)
    /\ \E i \in DOMAIN troves : RLt(get_current_icr(Machine, i, price_feed), MCR)

(* The troves that are not Active or Zombie: closed ones and ids never opened. *)
NotLiquidatable(m, trove_id) ==
    trove_id \in DOMAIN m.troves => ~_is_active_or_zombie(m.troves[trove_id].status)

(* total_stakes, the batches' debt and shares, and the pool balances. *)
SharedState(m) ==
    <<m.tm.total_stakes,
      [b \in DOMAIN m.batches |-> <<m.batches[b].debt, m.batches[b].total_debt_shares>>],
      m.ap.coll_balance, m.ap.agg_recorded_debt, m.dp.coll_balance, m.dp.bold_debt,
      m.sp.coll_balance, m.sp.total_bold_deposits, m.csp.coll_balance>>

(* The call that ended in r left the trove's record as it was. *)
RecordKept(r, trove_id) ==
    IF trove_id \in DOMAIN troves
    THEN trove_id \in DOMAIN r.troves /\ r.troves[trove_id] = troves[trove_id]
    ELSE trove_id \notin DOMAIN r.troves

(* C7: only Active and Zombie troves can be liquidated or redeemed from.   *)
(* For a trove that is NonExistent or closed (standalone or formerly in a  *)
(* batch), every call of liquidate, batch_liquidate_troves,                *)
(* redeem_collateral or urgent_redemption either fails or skips it, and    *)
(* leaves the trove's record, total_stakes, its batch's debt and           *)
(* total_debt_shares, and all pool balances unchanged.                     *)
C7_ClosedTrovesUntouched ==
    WithinRange(Machine) =>
        /\ \A trove_id \in TroveIds :
               NotLiquidatable(Machine, trove_id) =>
                   LET r == liquidate(Machine, trove_id)
                   IN  /\ r.exc # "none"
                       /\ RecordKept(r, trove_id)
                       /\ SharedState(r) = SharedState(Machine)
        /\ \A trove_array \in TroveArrays :
               (\A k \in DOMAIN trove_array : NotLiquidatable(Machine, trove_array[k])) =>
                   LET r == batch_liquidate_troves(Machine, trove_array)
                   IN  /\ \A k \in DOMAIN trove_array : RecordKept(r, trove_array[k])
                       /\ SharedState(r) = SharedState(Machine)
        /\ \A trove_array \in TroveArrays :
               \A bold_amount \in RedeemAmounts : \A min_collateral \in MinCollaterals :
               (\A k \in DOMAIN trove_array : NotLiquidatable(Machine, trove_array[k])) =>
                   LET r == urgent_redemption(Machine, "a", bold_amount, trove_array, min_collateral)
                   IN  /\ \A k \in DOMAIN trove_array : RecordKept(r, trove_array[k])
                       /\ SharedState(r) = SharedState(Machine)
        /\ \A trove_id \in TroveIds : \A bold_amount \in RedeemAmounts :
               NotLiquidatable(Machine, trove_id) =>
                   RecordKept(redeem_collateral(Machine, "a", bold_amount, 0), trove_id)

(* The call that ended in r failed and changed nothing. *)
FailedWithoutChange(r) ==
    /\ r.exc # "none"
    /\ [r EXCEPT !.exc = "none"] = Machine

(* After shutdown no liquidate, batch_liquidate_troves or redeem_collateral *)
(* goes through; before it no urgent_redemption does.                       *)
ShutdownGate ==
    WithinRange(Machine) =>
        /\ trove_manager.shutdown_time # 0 =>
               /\ \A trove_id \in TroveIds : FailedWithoutChange(liquidate(Machine, trove_id))
               /\ \A trove_array \in TroveArrays :
                      FailedWithoutChange(batch_liquidate_troves(Machine, trove_array))
               /\ \A bold_amount \in RedeemAmounts :
                      FailedWithoutChange(redeem_collateral(Machine, "a", bold_amount, 0))
        /\ trove_manager.shutdown_time = 0 =>
               \A trove_array \in TroveArrays :
                   \A bold_amount \in RedeemAmounts : \A min_collateral \in MinCollaterals :
                       urgent_redemption(Machine, "a", bold_amount, trove_array,
                                         min_collateral).exc # "none"

(* C8: shutdown is a one-way gate.  Once TroveManager.shutdown has been    *)
(* called, shutdown_time never returns to 0, and from then on no call of   *)
(* liquidate, batch_liquidate_troves or redeem_collateral liquidates or    *)
(* redeems any trove (each fails without changing state), while            *)
(* urgent_redemption fails in every state before shutdown and is accepted  *)
(* only after it.                                                          *)
C8_ShutdownOneWay ==
    /\ [][trove_manager.shutdown_time # 0 => trove_manager.shutdown_time' # 0]_vars
    /\ []ShutdownGate

(* The trove is Active or Zombie and its ICR is below MCR. *)
Eligible(trove_id) ==
    /\ trove_id \in DOMAIN troves
    /\ _is_active_or_zombie(troves[trove_id].status)
    /\ RLt(get_current_icr(Machine, trove_id, price_feed), MCR)

(* C9: liquidating an eligible trove (ICR < MCR) while the Stability Pool  *)
(* holds zero deposits completes successfully with debt_to_offset = 0 and  *)
(* coll_to_send_to_sp = 0, debt_to_redistribute equal to the trove's       *)
(* entire debt, and the collateral after gas compensation routed to        *)
(* redistribution under the 10% penalty cap min(coll, debt * 1.10 / price),*)
(* any excess becoming surplus.                                            *)
C9_EmptyPoolLiquidation ==
    (/\ WithinRange(Machine)
     /\ trove_manager.shutdown_time = 0
     /\ stability_pool.total_bold_deposits = Zero) =>
        \A trove_id \in TroveIds :
            Eligible(trove_id) =>
                LET trove == _get_latest_trove_data(Machine, trove_id)
                    vals == liquidate_values(Machine, trove_id)
                    coll == RSub(trove.entire_coll, _get_coll_gas_compensation(trove.entire_coll))
                    cap == RMin(coll, RDiv(RMul(trove.entire_debt, Rat(11, 10)), price_feed))
                IN  /\ liquidate(Machine, trove_id).exc = "none"
                    /\ vals.debt_to_offset = Zero
                    /\ vals.coll_to_send_to_sp = Zero
                    /\ vals.debt_to_redistribute = trove.entire_debt
                    /\ vals.coll_to_redistribute = cap
                    /\ vals.coll_surplus = RSub(coll, cap)

(* The Stability Pool balances a liquidation can be given: none, all of   *)
(* the deposits (liquidate), the deposits less MIN_BOLD_IN_SP               *)
(* (batch_liquidate_troves).                                               *)
AvailableBold ==
    {Zero, stability_pool.total_bold_deposits,
     RMax(RSub(stability_pool.total_bold_deposits, MIN_BOLD_IN_SP), Zero)}

(* C10: the liquidation split is exhaustive and non-overlapping for every  *)
(* trove, price and available Stability Pool balance: debt_to_offset +     *)
(* debt_to_redistribute equals the trove's entire debt, and                *)
(* coll_gas_compensation + coll_to_send_to_sp + coll_to_redistribute +     *)
(* coll_surplus equals the trove's entire collateral, with gas             *)
(* compensation = min(entire_coll / 200, cap); surplus left by the offset  *)
(* portion and rolled into the redistribution portion is counted once.     *)
C10_SplitExhaustive ==
    WithinRange(Machine) =>
        \A trove_id \in TroveIds : \A bold_in_sp_for_offsets \in AvailableBold :
            Eligible(trove_id) =>
                LET trove == _get_latest_trove_data(Machine, trove_id)
                    vals == _liquidate(Machine, trove_id, bold_in_sp_for_offsets,
                                       price_feed).single_liquidation
                IN  /\ vals.exc = "none"
                    /\ RAdd(vals.debt_to_offset, vals.debt_to_redistribute) = trove.entire_debt
                    /\ RAdd(RAdd(vals.coll_gas_compensation, vals.coll_to_send_to_sp),
                            RAdd(vals.coll_to_redistribute, vals.coll_surplus))
                         = trove.entire_coll
                    /\ vals.coll_gas_compensation
                         = RMin(RDiv(trove.entire_coll, I(200)), COLL_GAS_COMPENSATION_CAP)

(* What a liquidation may offset at most: the deposits less MIN_BOLD_IN_SP. *)
OffsetCeiling == RMax(RSub(stability_pool.total_bold_deposits, MIN_BOLD_IN_SP), Zero)

(* The liquidation that offsets debt_to_offset and ends in r keeps the floor. *)
FloorKept(debt_to_offset, r) ==
    /\ RLe(debt_to_offset, OffsetCeiling)
    /\ RGt(debt_to_offset, Zero) => debt_to_offset # stability_pool.total_bold_deposits
    /\ (RGe(stability_pool.total_bold_deposits, MIN_BOLD_IN_SP) /\ r.exc = "none")
           => RGe(r.sp.total_bold_deposits, MIN_BOLD_IN_SP)

(* C11: minimum deposit retained.  Neither liquidate nor                   *)
(* batch_liquidate_troves ever offsets more than total_bold_deposits -     *)
(* MIN_BOLD_IN_SP; a Stability Pool that held at least MIN_BOLD_IN_SP      *)
(* before a liquidation still holds at least that afterwards, and no       *)
(* liquidation calls offset with debt_to_offset equal to the pool's total  *)
(* deposits.                                                               *)
C11_MinimumDepositRetained ==
    (WithinRange(Machine) /\ trove_manager.shutdown_time = 0) =>
        /\ \A trove_id \in TroveIds :
               Eligible(trove_id) =>
                   FloorKept(liquidate_values(Machine, trove_id).debt_to_offset,
                             liquidate(Machine, trove_id))
        /\ \A trove_array \in TroveArrays :
               FloorKept(batch_liquidate_result(Machine, trove_array).totals.debt_to_offset,
                         batch_liquidate_troves(Machine, trove_array))

(* The pending redistribution gains stake * (L - snapshot) / PRECISION of  *)
(* the troves of m, summed: collateral and debt.                           *)
RECURSIVE PendingGains(_, _)
PendingGains(m, ids) ==
    IF ids = {} THEN [coll |-> Zero, bold_debt |-> Zero]
    ELSE LET i == CHOOSE x \in ids : TRUE
             rest == PendingGains(m, ids \ {i})
         IN  [coll |-> RAdd(rest.coll,
                            RMulDiv(m.troves[i].stake,
                                    RSub(m.tm.L_coll, m.reward_snapshots[i].coll), DP)),
              bold_debt |-> RAdd(rest.bold_debt,
                            RMulDiv(m.troves[i].stake,
                                    RSub(m.tm.L_bold_debt, m.reward_snapshots[i].bold_debt), DP))]

(* The gains are covered by the DefaultPool, up to one unit. *)
GainsCovered(m) ==
    LET gains == PendingGains(m, DOMAIN m.troves)
    IN  /\ RLe(gains.coll, m.dp.coll_balance)
        /\ RLe(gains.bold_debt, m.dp.bold_debt)
        /\ RLe(RSub(m.dp.coll_balance, gains.coll), One)
        /\ RLe(RSub(m.dp.bold_debt, gains.bold_debt), One)

(* The amounts of a further redistribution. *)
RedistributedDebts == {I(500), I(1500)}
RedistributedColls == {Rat(1, 2), One}

(* C12: redistribution with carried remainder.  After any sequence of      *)
(* _redistribute_debt_and_coll calls the sum over all staked troves of the *)
(* pending gains stake * (L - snapshot) / PRECISION never exceeds the      *)
(* collateral (respectively debt) that was redistributed and is held in    *)
(* DefaultPool, and falls short of it by at most one unit.                 *)
C12_GainsCovered ==
    /\ GainsCovered(Machine)
    /\ \A debt \in RedistributedDebts : \A coll \in RedistributedColls :
           LET r == _redistribute_debt_and_coll(Machine, debt, coll)
           IN  Ok(r) => GainsCovered(r)


(* The troves a redemption at the current price can take debt from: live,  *)
(* with debt, and not below 100% ICR.                                      *)
Redeemable(m, trove_id) ==
    /\ m.troves[trove_id].status \in {"ACTIVE", "ZOMBIE"}
    /\ RGt(_get_latest_trove_data(m, trove_id).entire_debt, Zero)
    /\ ~RLt(get_current_icr(m, trove_id, m.price), DP)

RateOf(m, trove_id) == _get_latest_trove_data(m, trove_id).annual_interest_rate

DistinctRates(m) ==
    \A i \in DOMAIN m.troves : \A j \in DOMAIN m.troves :
        (i # j /\ Redeemable(m, i) /\ Redeemable(m, j)) => RateOf(m, i) # RateOf(m, j)

LotIds(st) == {st.lots[k].trove_id : k \in DOMAIN st.lots}

AscendingRates(m, st) ==
    /\ \A k \in DOMAIN st.lots : \A l \in DOMAIN st.lots :
           k < l => RLt(RateOf(m, st.lots[k].trove_id), RateOf(m, st.lots[l].trove_id))
    /\ \A i \in DOMAIN m.troves : \A j \in LotIds(st) :
           (Redeemable(m, i) /\ RLt(RateOf(m, i), RateOf(m, j))) => i \in LotIds(st)

StopsWhenDone(m, st) ==
    \/ st.remaining_bold = Zero
    \/ \A i \in DOMAIN m.troves : Redeemable(m, i) => i \in LotIds(st)

(* C13: a redemption over troves with distinct annual interest rates takes *)
(* debt in strictly ascending rate order, lowest rate first, whatever the  *)
(* order the troves were opened in, and stops exactly when the requested   *)
(* amount is used up or no trove is left.                                  *)
C13_AscendingRateOrder ==
    (trove_manager.shutdown_time = 0 /\ trove_manager.last_zombie_trove_id = 0
     /\ DistinctRates(Machine)) =>
        \A bold_amount \in RedeemLots :
            LET st == redeem_result(Machine, bold_amount, 0)
            IN  Ok(st.m) => /\ AscendingRates(Machine, st)
                            /\ StopsWhenDone(Machine, st)


(* The trove redeem_collateral looks at first. *)
FirstRedeemed(m) ==
    IF m.tm.last_zombie_trove_id # 0 THEN m.tm.last_zombie_trove_id ELSE _get_last_trove_id(m)

(* Trove trove_id is reached by the loop of redeem_collateral while some   *)
(* of the requested amount remains: it is the first one, or the loop ended *)
(* with an amount left over and so went through the whole list.            *)
ReachedWithRemainder(m, st, trove_id) ==
    \/ trove_id = FirstRedeemed(m)
    \/ (RGt(st.remaining_bold, Zero) /\ \E k \in DOMAIN m.trove_ids : m.trove_ids[k] = trove_id)

SkipsExactlyBelow100pct(m, st) ==
    \A trove_id \in DOMAIN m.troves :
        (m.troves[trove_id].status \in {"ACTIVE", "ZOMBIE"}
         /\ RGt(_get_latest_trove_data(m, trove_id).entire_debt, Zero)) =>
            IF RLt(get_current_icr(m, trove_id, m.price), One)
            THEN st.m.troves[trove_id] = m.troves[trove_id]
            ELSE ReachedWithRemainder(m, st, trove_id) =>
                     RLt(st.m.troves[trove_id].debt,
                         _get_latest_trove_data(m, trove_id).entire_debt)

(* C14: redeem_collateral skips exactly the troves whose ICR at the        *)
(* fetched price is below 100%: a trove with ICR < 1.0 is left unchanged,  *)
(* and a trove with ICR >= 1.0 that is reached while some requested amount *)
(* remains has its debt reduced.                                           *)
C14_SkipsExactlyBelow100pct ==
    trove_manager.shutdown_time = 0 =>
        \A bold_amount \in RedeemLots :
            LET st == redeem_result(Machine, bold_amount, 0)
            IN  Ok(st.m) => SkipsExactlyBelow100pct(Machine, st)


RECURSIVE SumLots(_, _)
SumLots(lots, n) == IF n = 0 THEN Zero ELSE RAdd(SumLots(lots, n - 1), lots[n].bold_lot)

(* The entire debt of the trove of lot k when the loop reaches it: what an *)
(* earlier lot of the same call left, or else its debt before the call.    *)
EntireDebtBefore(m, lots, k) ==
    LET earlier == {j \in 1..(k - 1) : lots[j].trove_id = lots[k].trove_id}
    IN  IF earlier = {} THEN _get_latest_trove_data(m, lots[k].trove_id).entire_debt
        ELSE lots[CHOOSE j \in earlier : \A i \in earlier : i <= j].new_debt

LotsBounded(m, st, bold_amount) ==
    /\ \A k \in DOMAIN st.lots :
           st.lots[k].bold_lot = RMin(RSub(bold_amount, SumLots(st.lots, k - 1)),
                                      EntireDebtBefore(m, st.lots, k))
    /\ st.total_trove_change.debt_decrease = SumLots(st.lots, Len(st.lots))
    /\ RLe(st.total_trove_change.debt_decrease, bold_amount)

NothingNegative(m) ==
    \A trove_id \in DOMAIN m.troves :
        RGe(m.troves[trove_id].debt, Zero) /\ RGe(m.troves[trove_id].coll, Zero)

(* C15: in every redeem_collateral call each trove touched gives up        *)
(* bold_lot = min(remaining amount, its entire debt); the returned         *)
(* redeemed_amount is the sum of the lots and never more than the          *)
(* requested bold_amount; no trove's debt or collateral becomes negative.  *)
C15_RedemptionBounded ==
    \A redeemer \in Accounts : \A bold_amount \in RedeemLots :
        LET st == redeem_result(Machine, bold_amount, 0)
        IN  Ok(redeem_collateral(Machine, redeemer, bold_amount, 0)) =>
                /\ LotsBounded(Machine, st, bold_amount)
                /\ NothingNegative(redeem_collateral(Machine, redeemer, bold_amount, 0))

C15_Witness ==
    /\ last.op = "redeem_collateral"
    /\ last.exc = "none"
    /\ last.arg = 2500
    /\ \E i \in DOMAIN troves : troves[i].debt = Zero
    /\ \E j \in DOMAIN troves : RGt(troves[j].debt, Zero) /\ RLt(troves[j].debt, I(2000))


(* The minimum debt in the unit trove debts are kept in:                   *)
(* "self.MIN_DEBT / self.DECIMAL_PRECISION".                               *)
MinDebt == RDiv(MIN_DEBT, DP)

(* A redemption that takes a lot from an Active trove and leaves it with a *)
(* debt above zero and below the minimum makes it Zombie and points        *)
(* last_zombie_trove_id at it.                                             *)
ZombieRecorded(m, st) ==
    \A trove_id \in LotIds(st) :
        (m.troves[trove_id].status = "ACTIVE"
         /\ RGt(st.m.troves[trove_id].debt, Zero)
         /\ RLt(st.m.troves[trove_id].debt, MinDebt)) =>
            /\ st.m.troves[trove_id].status = "ZOMBIE"
            /\ st.m.tm.last_zombie_trove_id = trove_id

(* A redemption that finds the pointer set takes its first lot from the    *)
(* trove pointed at, unless that trove is below 100% and skipped.          *)
ZombieFirst(m, st) ==
    (m.tm.last_zombie_trove_id # 0 /\ Len(st.lots) > 0
     /\ ~RLt(get_current_icr(m, m.tm.last_zombie_trove_id, m.price), DP)) =>
        st.lots[1].trove_id = m.tm.last_zombie_trove_id

ClosedStatuses == {"CLOSED_BY_OWNER", "CLOSED_BY_LIQUIDATION", "CLOSED_BY_REDEMPTION"}

(* The moves of the status of a trove that the state machine allows. *)
StatusMoves ==
    {<<"ACTIVE", "ZOMBIE">>, <<"ZOMBIE", "ACTIVE">>}
        \cup ({"ACTIVE", "ZOMBIE"} \X ClosedStatuses)

(* Every trove that a redemption turns Zombie is left with an entire debt  *)
(* (as _get_latest_trove_data reads it after the call) below the minimum.  *)
ZombieBelowMinimum ==
    trove_manager.shutdown_time = 0 =>
        \A bold_amount \in RedeemLots :
            LET st == redeem_result(Machine, bold_amount, 0)
            IN  Ok(st.m) =>
                    \A trove_id \in DOMAIN troves :
                        (troves[trove_id].status # "ZOMBIE"
                         /\ st.m.troves[trove_id].status = "ZOMBIE") =>
                            RLt(_get_latest_trove_data(st.m, trove_id).entire_debt, MinDebt)

(* C17: the status of a trove changes only from NonExistent to Active,     *)
(* between Active and Zombie, and from Active or Zombie to a Closed        *)
(* status; a closed trove never changes status again; a trove becomes      *)
(* Zombie only through a redemption that leaves its debt below MIN_DEBT.   *)
C17_StatusMachine ==
    /\ [][\A trove_id \in DOMAIN troves' :
             IF trove_id \notin DOMAIN troves
             THEN troves'[trove_id].status = "ACTIVE"
             ELSE troves'[trove_id].status # troves[trove_id].status =>
                      /\ <<troves[trove_id].status, troves'[trove_id].status>> \in StatusMoves
                      /\ troves'[trove_id].status = "ZOMBIE" =>
                             last'.op = "redeem_collateral"]_vars
    /\ []ZombieBelowMinimum


(* 1 + the urgent redemption bonus of 1%. *)
OnePlusBonus == RAdd(One, RDiv(URGENT_REDEMPTION_BONUS, DP))

(* The lot that an urgent redemption is to take from a trove with the      *)
(* latest data trove when remaining is still to redeem.                    *)
UrgentLot(trove, remaining, price) ==
    LET bold_lot == RMin(remaining, trove.entire_debt)
        coll_lot == RDiv(RMul(bold_lot, OnePlusBonus), price)
    IN  IF RGt(coll_lot, trove.entire_coll)
        THEN [bold_lot |-> RDiv(RMul(trove.entire_coll, price), OnePlusBonus),
              coll_lot |-> trove.entire_coll]
        ELSE [bold_lot |-> bold_lot, coll_lot |-> coll_lot]

(* Lot k is the first one taken from its trove, and the trove is in no     *)
(* batch: its latest data before the call are those the lot was cut from.  *)
FirstLotOfTrove(m, lots, k) ==
    /\ \A j \in 1..(k - 1) : lots[j].trove_id # lots[k].trove_id
    /\ _get_batch_manager(m, lots[k].trove_id) = NoBatch

UrgentLotsAsStated(m, st, bold_amount) ==
    /\ \A k \in DOMAIN st.lots :
           FirstLotOfTrove(m, st.lots, k) =>
               LET lot == UrgentLot(_get_latest_trove_data(m, st.lots[k].trove_id),
                                    RSub(bold_amount, SumLots(st.lots, k - 1)), m.price)
               IN  st.lots[k].bold_lot = lot.bold_lot /\ st.lots[k].coll_lot = lot.coll_lot
    /\ RLe(st.total_trove_change.debt_decrease, bold_amount)
    /\ NothingNegative(st.m)

(* Every listed Active or Zombie trove with debt is redeemed from while an *)
(* amount remains, whatever its ICR.                                       *)
UrgentSkipsNone(m, st, trove_array) ==
    \A i \in DOMAIN trove_array :
        (trove_array[i] \in DOMAIN m.troves
         /\ _is_active_or_zombie(m.troves[trove_array[i]].status)
         /\ RGt(m.troves[trove_array[i]].debt, Zero)
         /\ RGt(st.remaining_bold, Zero)) => trove_array[i] \in LotIds(st)

(* C18: urgent_redemption, for each listed Active or Zombie trove with     *)
(* debt, redeems bold_lot = min(remaining, entire debt) against collateral *)
(* bold_lot * (1 + 1% bonus) / price without skipping troves below 100%    *)
(* ICR; when that exceeds the trove's entire collateral it takes the whole *)
(* collateral and lowers bold_lot to entire_coll * price / (1 + bonus); no *)
(* collateral or debt becomes negative and the total redeemed never        *)
(* exceeds the requested amount.                                           *)
C18_UrgentLots ==
    trove_manager.shutdown_time # 0 =>
        \A bold_amount \in RedeemLots : \A trove_array \in TroveArrays :
            LET st == urgent_result(Machine, bold_amount, trove_array)
            IN  Ok(st.m) => /\ UrgentLotsAsStated(Machine, st, bold_amount)
                            /\ UrgentSkipsNone(Machine, st, trove_array)


(* What an urgent redemption works on: the trove records (debt, collateral *)
(* and stake), the reward snapshots, the batch records, total_stakes and   *)
(* the balances of the pools.                                              *)
UrgentRedemptionState(m) ==
    <<m.troves, m.reward_snapshots, m.batches, m.tm.total_stakes,
      m.ap.coll_balance, m.ap.agg_recorded_debt, m.dp.coll_balance, m.dp.bold_debt,
      m.sp.coll_balance, m.sp.total_bold_deposits, m.csp.coll_balance>>

(* C19: urgent_redemption is all-or-nothing.  When it fails because the    *)
(* collateral drawn is below min_collateral, or for any later reason such  *)
(* as the final burn being rejected, no trove debt, collateral, stake,     *)
(* reward snapshot, batch record, total_stakes or pool balance differs     *)
(* from its value before the call.                                         *)
C19_UrgentAllOrNothing ==
    \A redeemer \in Accounts : \A bold_amount \in RedeemLots :
        \A trove_array \in TroveArrays : \A min_collateral \in MinCollaterals :
            LET r == urgent_redemption(Machine, redeemer, bold_amount, trove_array,
                                       min_collateral)
            IN  r.exc # "none" => UrgentRedemptionState(r) = UrgentRedemptionState(Machine)


(* What a withdrawal from the Stability Pool works on. *)
WithdrawalState(sp) ==
    <<sp.total_bold_deposits, sp.deposits, sp.deposit_snapshots, sp.stashed_coll,
      sp.yield_gains_owed, sp.coll_balance>>

(* C20: a withdraw_from_sp call that would leave total_bold_deposits below *)
(* MIN_BOLD_IN_SP is rejected, and after the rejection                     *)
(* total_bold_deposits, the depositor's deposit and snapshots,             *)
(* stashed_coll, yield_gains_owed and coll_balance are as before the call; *)
(* total_bold_deposits never falls below the floor through a withdrawal.   *)
C20_WithdrawalFloor ==
    \A depositor \in Accounts : \A amount \in Withdrawals : \A do_claim \in BOOLEAN :
        LET r == withdraw_from_sp(Machine, depositor, amount, do_claim)
        IN  /\ r.exc # "none" => WithdrawalState(r.sp) = WithdrawalState(stability_pool)
            /\ r.exc = "none" => RGe(r.sp.total_bold_deposits, MIN_BOLD_IN_SP)
            /\ RGe(stability_pool.total_bold_deposits, MIN_BOLD_IN_SP) =>
                   RGe(r.sp.total_bold_deposits, MIN_BOLD_IN_SP)


OffsetDebts == {I(100), I(500)}
OffsetColls == {One, I(2)}

(* v is the amount target rounded down by less than one unit, never above. *)
RoundedDown(v, target) == RLe(v, target) /\ RGt(v, RSub(target, One))

(* The pool has one depositor, whose deposit is the whole pool and whose   *)
(* snapshots are those of the pool now.                                    *)
SingleDepositor(depositor) ==
    /\ RGt(stability_pool.deposits[depositor], Zero)
    /\ stability_pool.deposits[depositor] = stability_pool.total_bold_deposits
    /\ stability_pool.deposit_snapshots[depositor] =
           [S |-> stability_pool.scale_to_S[stability_pool.current_scale],
            P |-> stability_pool.P,
            B |-> stability_pool.scale_to_B[stability_pool.current_scale],
            scale |-> stability_pool.current_scale]

(* C21: with one depositor holding deposit D and no scale change, after    *)
(* offset(d, c) with 0 < d < D the depositor's compounded deposit is D - d *)
(* and the collateral gain is c, each rounded down by less than one unit   *)
(* and never above; total_bold_deposits drops by d and coll_balance rises  *)
(* by c.                                                                   *)
C21_SingleDepositorOffset ==
    \A depositor \in Accounts : \A d \in OffsetDebts : \A c \in OffsetColls :
        LET r == offset(Machine, d, c)
            D == stability_pool.deposits[depositor]
        IN  (SingleDepositor(depositor) /\ RLt(d, D) /\ Ok(r)
             /\ r.sp.current_scale = stability_pool.current_scale) =>
                /\ RoundedDown(get_compounded_bold_deposit(r, depositor), RSub(D, d))
                /\ RoundedDown(get_depositor_coll_gain(r, depositor), c)
                /\ r.sp.total_bold_deposits = RSub(stability_pool.total_bold_deposits, d)
                /\ r.sp.coll_balance = RAdd(stability_pool.coll_balance, c)


ScaleDiff(depositor) ==
    stability_pool.current_scale - stability_pool.deposit_snapshots[depositor].scale

(* deposit * P / snapshot.P / SCALE_FACTOR^scaleDiff, not rounded. *)
ScaledDeposit(depositor) ==
    ExactShare(stability_pool.deposits[depositor], stability_pool.P,
               stability_pool.deposit_snapshots[depositor].P, ScaleDiff(depositor))

(* C22 as stated: for a deposit whose snapshot has not been rewritten,     *)
(* get_compounded_bold_deposit returns exactly 0 when current_scale -      *)
(* snapshot.scale is MAX_SCALE_FACTOR_EXPONENT + 1 or more, and the        *)
(* nonzero value deposit * P / snapshot.P / SCALE_FACTOR^scaleDiff when    *)
(* the difference is exactly MAX_SCALE_FACTOR_EXPONENT.                    *)
C22_ScaleBoundaryNonzero ==
    \A depositor \in Accounts :
        LET v == get_compounded_bold_deposit(Machine, depositor)
        IN  RGt(stability_pool.deposits[depositor], Zero) =>
                /\ ScaleDiff(depositor) >= MAX_SCALE_FACTOR_EXPONENT + 1 => v = Zero
                /\ ScaleDiff(depositor) = MAX_SCALE_FACTOR_EXPONENT =>
                       v # Zero /\ RoundedDown(v, ScaledDeposit(depositor))

(* C22: get_compounded_bold_deposit returns exactly 0 when current_scale - *)
(* snapshot.scale is MAX_SCALE_FACTOR_EXPONENT + 1 or more; when the       *)
(* difference is exactly MAX_SCALE_FACTOR_EXPONENT it returns              *)
(* deposit * P / snapshot.P / SCALE_FACTOR^scaleDiff rounded down, which   *)
(* is nonzero exactly when that quotient is at least 1.                    *)
C22_ScaleBoundary ==
    \A depositor \in Accounts :
        LET v == get_compounded_bold_deposit(Machine, depositor)
        IN  RGt(stability_pool.deposits[depositor], Zero) =>
                /\ ScaleDiff(depositor) >= MAX_SCALE_FACTOR_EXPONENT + 1 => v = Zero
                /\ ScaleDiff(depositor) = MAX_SCALE_FACTOR_EXPONENT =>
                       /\ RoundedDown(v, ScaledDeposit(depositor))
                       /\ v # Zero <=> RGe(ScaledDeposit(depositor), One)

C22_Witness ==
    /\ last.op = "get_compounded_bold_deposit"
    /\ last.arg > 0
    /\ \E depositor \in Accounts : ScaleDiff(depositor) = MAX_SCALE_FACTOR_EXPONENT


Yields == {One, I(50)}

(* The yield the pool holds for its depositors, distributed or not. *)
YieldHeld(sp) == RAdd(sp.yield_gains_owed, sp.yield_gains_pending)

(* r is the pool after the yield accumulated was moved into                *)
(* yield_gains_owed and B[current_scale] of the pool sp in one step.       *)
Flushed(sp, r, accumulated) ==
    LET increase == RSub(r.scale_to_B[sp.current_scale], sp.scale_to_B[sp.current_scale])
    IN  /\ r.yield_gains_pending = Zero
        /\ r.yield_gains_owed = RAdd(sp.yield_gains_owed, accumulated)
        /\ RLe(RMulDiv(increase, sp.total_bold_deposits, sp.P), accumulated)
        /\ RGt(RMulDiv(RAdd(increase, One), sp.total_bold_deposits, sp.P), accumulated)

(* trigger_bold_rewards(y) on the pool as it is. *)
TriggerHoldsOrFlushes ==
    \A y \in Yields :
        LET r == trigger_bold_rewards(Machine, y).sp
        IN  IF RLt(stability_pool.total_bold_deposits, MIN_BOLD_IN_SP)
            THEN /\ r.yield_gains_pending = RAdd(stability_pool.yield_gains_pending, y)
                 /\ r.scale_to_B = stability_pool.scale_to_B
                 /\ r.yield_gains_owed = stability_pool.yield_gains_owed
            ELSE Flushed(stability_pool, r, RAdd(stability_pool.yield_gains_pending, y))

(* provide_to_sp on a pool below the floor: m is the machine once the      *)
(* pending interest is minted, r the one the call ends in.                 *)
ProvideFlushes(m, r, depositor) ==
    (Ok(r) /\ RGe(r.sp.total_bold_deposits, MIN_BOLD_IN_SP)) =>
        /\ r.sp.yield_gains_pending = Zero
        /\ YieldHeld(r.sp) = RSub(YieldHeld(m.sp), get_depositor_yield_gain(m, depositor))
        /\ RGt(m.sp.yield_gains_pending, Zero) =>
               RGt(r.sp.scale_to_B[m.sp.current_scale], m.sp.scale_to_B[m.sp.current_scale])

(* C23: while total_bold_deposits is below MIN_BOLD_IN_SP,                 *)
(* trigger_bold_rewards(y) only adds y to yield_gains_pending and leaves   *)
(* scale_to_B and yield_gains_owed unchanged; the first provide_to_sp or   *)
(* trigger after total_bold_deposits has reached the floor moves the whole *)
(* pending amount into yield_gains_owed and B[current_scale] in one step   *)
(* and sets yield_gains_pending to 0, so that no triggered yield is lost   *)
(* or counted twice.                                                       *)
C23_PendingYield ==
    /\ TriggerHoldsOrFlushes
    /\ RLt(stability_pool.total_bold_deposits, MIN_BOLD_IN_SP) =>
           \A depositor \in Accounts : \A top_up_amount \in TopUps : \A do_claim \in BOOLEAN :
               ProvideFlushes(mint_agg_interest(Machine, now, Zero),
                              provide_to_sp(Machine, depositor, top_up_amount, do_claim),
                              depositor)

C23_Witness ==
    /\ last.op = "provide_to_sp"
    /\ last.exc = "none"
    /\ RGe(stability_pool.total_bold_deposits, MIN_BOLD_IN_SP)
    /\ stability_pool.yield_gains_pending = Zero
    /\ RGt(stability_pool.yield_gains_owed, Zero)
    /\ RGt(stability_pool.scale_to_B[stability_pool.current_scale], Zero)


(* The clock readings from shutdown_time on, one past the last reading a   *)
(* run reaches included.                                                   *)
FrozenReadTimes == trove_manager.shutdown_time .. (MaxTime + 1)

(* The machine read when the clock shows t. *)
ReadAt(t) == [Machine EXCEPT !.now = t]

LiveTroves == {i \in DOMAIN troves : _is_active_or_zombie(troves[i].status)}

(* Trove i reads the same at the clock readings t1 and t2. *)
SameReading(i, t1, t2) ==
    /\ _get_latest_trove_data(ReadAt(t1), i) = _get_latest_trove_data(ReadAt(t2), i)
    /\ \A price \in Prices :
           get_current_icr(ReadAt(t1), i, price) = get_current_icr(ReadAt(t2), i, price)

(* The interest of trove i accrues over a period that ends at shutdown_time. *)
PeriodEndsAtShutdown(i, t) ==
    LET batch_address == _get_batch_manager(Machine, i)
        last_update == IF batch_address # NoBatch
                       THEN batches[batch_address].last_debt_update_time
                       ELSE troves[i].last_debt_update_time
        period == trove_manager.shutdown_time - last_update
    IN  _get_interest_period(ReadAt(t), last_update) = IF period > 0 THEN period ELSE 0

SimpleInterest(D, r, elapsed) ==
    RDiv(RMul(RMul(D, r), I(elapsed)), I(ONE_YEAR_IN_SECONDS))

Elapses == {1, ONE_YEAR_IN_SECONDS}

(* TroveManager: the interest a live trove has accrued on its recorded     *)
(* debt, at its own rate or at the rate of its batch.                      *)
ManagerAccrual ==
    \A i \in LiveTroves :
        LET data == _get_latest_trove_data(Machine, i)
            batch_address == _get_batch_manager(Machine, i)
            r == IF batch_address # NoBatch
                 THEN batches[batch_address].annual_interest_rate
                 ELSE troves[i].annual_interest_rate
            last_update == IF batch_address # NoBatch
                           THEN batches[batch_address].last_debt_update_time
                           ELSE troves[i].last_debt_update_time
        IN  RoundedDown(data.accrued_interest,
                        SimpleInterest(data.recorded_debt, r,
                                       _get_interest_period(Machine, last_update)))

(* BoldProtocol: _apply_interest once `seconds` more have elapsed. *)
ProtocolAccrual ==
    \A trove_id \in DOMAIN protocol.troves : \A seconds \in Elapses :
        LET trove == protocol.troves[trove_id]
            v0 == BoldProtocol_update_time(protocol, seconds)
            v == BoldProtocol__apply_interest(v0, trove_id)
            r == IF trove.batch_manager # NoBatch
                 THEN protocol.batches[trove.batch_manager].interest_rate
                 ELSE trove.interest_rate
            interest == SimpleInterest(trove.debt, r, v0.current_time - trove.last_update)
        IN  v = [v0 EXCEPT !.troves[trove_id].debt = RAdd(trove.debt, interest),
                           !.troves[trove_id].last_update = v0.current_time,
                           !.total_system_debt = RAdd(@, interest)]

(* The two troves of the tests, one year on: 4000 at 5% standalone, and    *)
(* 4000 in a batch of 7% that it joined at once.                           *)
OneYearAlone ==
    BoldProtocol__apply_interest(
        BoldProtocol_update_time(
            BoldProtocol_open_trove(BoldProtocol_init, "user1", I(3), I(4000), Rat(5, 100)),
            ONE_YEAR_IN_SECONDS), 1)

OneYearInBatch ==
    BoldProtocol__apply_interest(
        BoldProtocol_update_time(
            BoldProtocol_join_batch(
                BoldProtocol_create_batch(
                    BoldProtocol_open_trove(BoldProtocol_init, "user1", I(4), I(4000),
                                            Rat(5, 100)),
                    "manager1", Rat(7, 100), Rat(2, 100)),
                1, "manager1"),
            ONE_YEAR_IN_SECONDS), 1)

ProtocolExamples ==
    /\ OneYearAlone.troves[1].debt = I(4200)
    /\ OneYearInBatch.troves[1].debt = I(4280)

(* C25: a trove with recorded debt D accrues D * r * elapsedSeconds /      *)
(* secondsPerYear of interest with no other change, r being its own annual *)
(* rate or, once it has joined a batch, the batch's rate: 4000 in a 7%     *)
(* batch owes 280 after exactly one year, 4000 at 5% standalone owes 200.  *)
C25_InterestAccrual ==
    /\ ManagerAccrual
    /\ ProtocolAccrual
    /\ ProtocolExamples


RECURSIVE SumBalances(_, _)
SumBalances(balances, accounts) ==
    IF accounts = {} THEN Zero
    ELSE LET a == CHOOSE x \in accounts : TRUE
         IN  RAdd(balances[a], SumBalances(balances, accounts \ {a}))

EscrowCovered ==
    coll_surplus_pool.coll_balance =
        SumBalances(coll_surplus_pool.balances, DOMAIN coll_surplus_pool.balances)

(* claim_coll(account) on the pool as it is: the whole balance is paid and *)
(* zeroed, or the call fails and nothing changes.                          *)
ClaimPaysWholeBalance(account) ==
    LET r == claim_coll(Machine, account)
        balance == coll_surplus_pool.balances[account]
    IN  IF RGt(balance, Zero)
        THEN /\ Ok(r)
             /\ r.paid.out = RAdd(paid.out, balance)
             /\ r.csp.balances = [coll_surplus_pool.balances EXCEPT ![account] = Zero]
        ELSE r = Raise(Machine, "ValueError")

(* C26: after any sequence of account_surplus and claim_coll, coll_balance *)
(* equals the sum of all per-account balances; claim_coll(owner) returns   *)
(* the owner's whole balance and sets it to 0, and when the owner's        *)
(* balance is 0 it fails with an error and changes nothing.                *)
C26_SurplusEscrow ==
    /\ EscrowCovered
    /\ \A account \in DOMAIN coll_surplus_pool.balances : ClaimPaysWholeBalance(account)

C26_Witness ==
    /\ last.op = "claim_coll"
    /\ last.exc = "none"
    /\ RGt(paid.out, Zero)
    /\ RGt(coll_surplus_pool.coll_balance, Zero)
    /\ \E account \in DOMAIN coll_surplus_pool.balances :
           coll_surplus_pool.balances[account] = Zero


(* The amounts tried on the pools as they are: none, negative, a fraction, *)
(* and up to one more than the largest balance.                            *)
TriedAmounts == PoolAmounts \cup {Rat(1, 2), I(3)}
    \cup {RAdd(b, One) : b \in {active_pool.coll_balance, default_pool.coll_balance,
                                default_pool.bold_debt}}

(* The call that ends in r was refused: an error, and both pools as before. *)
Refused(r) == r = Raise(Machine, "ValueError")

(* A call that takes `amount` out of `balance` is refused when the amount  *)
(* is not positive or exceeds the balance.                                 *)
OutgoingChecked(r, amount, balance) ==
    (RLe(amount, Zero) \/ RGt(amount, balance)) => Refused(r)

IncomingChecked(r, amount) == RLe(amount, Zero) => Refused(r)

PoolsCollateral(m) == RAdd(m.ap.coll_balance, m.dp.coll_balance)

TransfersChecked ==
    \A amount \in TriedAmounts :
        /\ OutgoingChecked(ap_send_coll(Machine, amount), amount, active_pool.coll_balance)
        /\ OutgoingChecked(ap_send_coll_to_default_pool(Machine, amount), amount,
                           active_pool.coll_balance)
        /\ IncomingChecked(ap_receive_coll(Machine, amount), amount)
        /\ IncomingChecked(dp_receive_coll(Machine, amount), amount)
        /\ OutgoingChecked(dp_send_coll_to_active_pool(Machine, amount), amount,
                           default_pool.coll_balance)
        /\ IncomingChecked(dp_increase_bold_debt(Machine, amount), amount)
        /\ OutgoingChecked(dp_decrease_bold_debt(Machine, amount), amount,
                           default_pool.bold_debt)

TransfersBalanced ==
    \A amount \in TriedAmounts :
        /\ PoolsCollateral(ap_send_coll_to_default_pool(Machine, amount))
               = PoolsCollateral(Machine)
        /\ PoolsCollateral(dp_send_coll_to_active_pool(Machine, amount))
               = PoolsCollateral(Machine)

(* C27: the transfer methods of the ActivePool and the DefaultPool fail    *)
(* with an error, leaving both pools' balances unchanged, whenever the     *)
(* amount is <= 0 or, for an outgoing transfer or a decrease, exceeds the  *)
(* current balance; so ActivePool.coll_balance, DefaultPool.coll_balance   *)
(* and DefaultPool.bold_debt are never negative, and a transfer between    *)
(* the two pools changes their sum by zero.                                *)
C27_PoolTransfersChecked ==
    /\ TransfersChecked
    /\ TransfersBalanced
    /\ RGe(active_pool.coll_balance, Zero)
    /\ RGe(default_pool.coll_balance, Zero)
    /\ RGe(default_pool.bold_debt, Zero)

C27_Witness ==
    /\ last.op = "DefaultPool.send_coll_to_active_pool"
    /\ last.exc = "ValueError"
    /\ RGt(active_pool.coll_balance, Zero)
    /\ RGt(default_pool.coll_balance, Zero)
    /\ RGt(default_pool.bold_debt, Zero)


(* The lists handed to batch_liquidate_troves: the empty one, single ids,  *)
(* pairs with repetitions, and one naming an id no trove has.              *)
ListedArrays == TroveArrays \cup {<<>>, <<1, MaxTroves + 1>>}

Listed(trove_array) == {trove_array[k] : k \in DOMAIN trove_array}

(* The listed troves that exist, are Active or Zombie and are below MCR. *)
EligibleListed(trove_array) ==
    {i \in Listed(trove_array) \cap DOMAIN troves :
        /\ _is_active_or_zombie(troves[i].status)
        /\ RLt(get_current_icr(Machine, i, price_feed), MCR)}

(* The ids of seq, each once. *)
NoRepeats(seq) == \A j, k \in DOMAIN seq : seq[j] = seq[k] => j = k

RECURSIVE SumLatest(_, _)
SumLatest(ids, field) ==
    IF ids = {} THEN Zero
    ELSE LET i == CHOOSE x \in ids : TRUE
         IN  RAdd(_get_latest_trove_data(Machine, i)[field], SumLatest(ids \ {i}, field))

(* The batch liquidated exactly the troves of `eligible`, each once, and   *)
(* its totals are the sums over them.                                      *)
LiquidatedExactly(acc, r, eligible) ==
    /\ Ok(r)
    /\ NoRepeats(acc.done)
    /\ Listed(acc.done) = eligible
    /\ \A i \in DOMAIN troves :
           IF i \in eligible THEN r.troves[i].status = "CLOSED_BY_LIQUIDATION"
           ELSE r.troves[i] = troves[i]
    /\ acc.trove_change.debt_decrease = SumLatest(eligible, "entire_debt")
    /\ acc.trove_change.coll_decrease = SumLatest(eligible, "entire_coll")
    /\ RAdd(acc.totals.debt_to_offset, acc.totals.debt_to_redistribute)
           = SumLatest(eligible, "entire_debt")
    /\ RAdd(RAdd(acc.totals.coll_gas_compensation, acc.totals.coll_to_send_to_sp),
            RAdd(acc.totals.coll_to_redistribute, acc.totals.coll_surplus))
           = SumLatest(eligible, "entire_coll")

BatchLiquidationAsStated(trove_array) ==
    LET acc == batch_liquidate_result(Machine, trove_array)
        r == batch_liquidate_troves(Machine, trove_array)
        eligible == EligibleListed(trove_array)
    IN  IF eligible = {} THEN r = Raise(Machine, "ValueError")
        ELSE LiquidatedExactly(acc, r, eligible)

(* C28: batch_liquidate_troves skips every listed id that is nonexistent,  *)
(* not Active/Zombie, repeated or has ICR >= MCR, and liquidates each      *)
(* eligible trove exactly once with totals equal to the sums of the single *)
(* liquidations; when no listed trove is eligible, or the list is empty,   *)
(* it fails with an error and changes no state.                            *)
C28_BatchLiquidation ==
    RGt(price_feed, Zero) =>
        \A trove_array \in ListedArrays : BatchLiquidationAsStated(trove_array)


TriedColls == {One, I(2), I(3)}
TriedDebts == {Zero, I(1999), I(2000), I(4000)}
TriedRates == {Rat(1, 1000), Rat(5, 1000), Rat(5, 100), Rat(5, 2), I(3)}

(* The three grounds on which open_trove rejects. *)
OpenRejected(collateral, debt, interest_rate) ==
    \/ RLt(debt, I(2000))
    \/ RLt(RDiv(RMul(collateral, protocol.eth_price), debt), Rat(110, 100))
    \/ RLt(interest_rate, Rat(5, 1000))
    \/ RGt(interest_rate, Rat(250, 100))

(* The records of r are those of the protocol with one more trove, under   *)
(* the next id, that has the given values.                                 *)
Registered(r, owner, collateral, debt, interest_rate) ==
    LET id == protocol.next_trove_id
    IN  /\ Ok(r)
        /\ r.next_trove_id = id + 1
        /\ DOMAIN r.troves = DOMAIN protocol.troves \cup {id}
        /\ \A i \in DOMAIN protocol.troves : r.troves[i] = protocol.troves[i]
        /\ r.troves[id].owner = owner
        /\ r.troves[id].collateral = collateral
        /\ r.troves[id].debt = debt
        /\ r.troves[id].interest_rate = interest_rate

SequentialIds ==
    /\ protocol.next_trove_id >= 1
    /\ calls = 0 => protocol.next_trove_id = 1
    /\ DOMAIN protocol.troves \subseteq 1..(protocol.next_trove_id - 1)

(* C29: BoldProtocol.open_trove rejects with ValueError a debt below 2000, *)
(* a ratio collateral * price / debt below 110% and an interest rate       *)
(* outside [0.5%, 250%], leaving troves, next_trove_id, total_system_debt  *)
(* and total_collateral unchanged; an accepted call registers the trove    *)
(* under the next sequential id, from 1 on, with exactly the given owner,  *)
(* collateral, debt and rate.                                              *)
C29_OpenTroveValidated ==
    /\ SequentialIds
    /\ \A owner \in Accounts, collateral \in TriedColls, debt \in TriedDebts,
          interest_rate \in TriedRates :
           LET r == BoldProtocol_open_trove(protocol, owner, collateral, debt, interest_rate)
           IN  IF OpenRejected(collateral, debt, interest_rate)
               THEN r = Raise(protocol, "ValueError")
               ELSE Registered(r, owner, collateral, debt, interest_rate)

C29_Witness ==
    /\ last.op = "BoldProtocol.open_trove"
    /\ last.exc = "none"
    /\ last.arg = 2
    /\ DOMAIN protocol.troves = {1, 2}
    /\ protocol.next_trove_id = 3


RECURSIVE SumTroves(_, _, _)
SumTroves(registry, ids, field) ==
    IF ids = {} THEN Zero
    ELSE LET i == CHOOSE x \in ids : TRUE
         IN  RAdd(registry[i][field], SumTroves(registry, ids \ {i}, field))

(* Every trove that names a batch is in that batch's list: what join_batch *)
(* and liquidate_trove keep, and what a create_batch for a manager that    *)
(* already has members undoes.                                             *)
MembersListed ==
    \A i \in DOMAIN protocol.troves :
        LET manager == protocol.troves[i].batch_manager
        IN  manager # NoBatch =>
                \E k \in DOMAIN protocol.batches[manager].troves :
                    protocol.batches[manager].troves[k] = i

TotalsMatchRegistry ==
    /\ protocol.total_system_debt
           = SumTroves(protocol.troves, DOMAIN protocol.troves, "debt")
    /\ protocol.total_collateral
           = SumTroves(protocol.troves, DOMAIN protocol.troves, "collateral")

(* C30: in BoldProtocol, after any sequence of open_trove, join_batch,     *)
(* update_time, _apply_interest, update_eth_price and liquidate_trove,     *)
(* total_system_debt equals the sum of debt and total_collateral the sum   *)
(* of collateral over the troves currently in the registry.                *)
C30_TotalsMatchRegistry == MembersListed => TotalsMatchRegistry

C30_Witness ==
    /\ last.op = "BoldProtocol.update_eth_price"
    /\ last.exc = "none"
    /\ \E i \in DOMAIN protocol.troves :
           /\ protocol.troves[i].batch_manager # NoBatch
           /\ RGt(protocol.troves[i].debt, I(2000))
    /\ MembersListed


(* Trove i of the protocol once its accrued interest is applied. *)
WithInterest(i) == BoldProtocol__apply_interest(protocol, i).troves[i]

(* r is the protocol after update_eth_price(p) returned. *)
PriceUpdateLiquidates(r, p) ==
    /\ \A i \in DOMAIN r.troves : ~RLt(Trove_icr(r.troves[i], p), MCR)
    /\ \A i \in DOMAIN protocol.troves :
           RGe(Trove_icr(WithInterest(i), p), MCR) =>
               /\ i \in DOMAIN r.troves
               /\ r.troves[i].collateral = protocol.troves[i].collateral
               /\ BoldProtocol_liquidate_trove(r, i) = Raise(r, "ValueError")
    /\ \A i \in DOMAIN protocol.troves :
           RLt(Trove_icr(WithInterest(i), p), MCR) => i \notin DOMAIN r.troves

(* C31: after BoldProtocol.update_eth_price(p) returns, no trove left in   *)
(* the registry has ICR < MCR at price p, every trove whose ICR with its   *)
(* accrued interest applied was >= MCR at p is still in the registry with  *)
(* its collateral unchanged, and a later liquidate_trove on such a trove   *)
(* is rejected as not eligible.                                            *)
C31_AutomaticLiquidation ==
    \A p \in Prices :
        LET r == BoldProtocol_update_eth_price(protocol, p)
        IN  Ok(r) => PriceUpdateLiquidates(r, p)

C31_Witness ==
    /\ last.op = "BoldProtocol.update_eth_price"
    /\ last.exc = "none"
    /\ protocol.next_trove_id = 3
    /\ DOMAIN protocol.troves = {2}


BatchMembers(v, manager) ==
    {v.batches[manager].troves[k] : k \in DOMAIN v.batches[manager].troves}

(* In the protocol record v every batch lists exactly the troves that name *)
(* it, those troves carry its rate, and its totals are the sums over them. *)
BatchesConsistent(v) ==
    /\ \A i \in DOMAIN v.troves :
           v.troves[i].batch_manager # NoBatch =>
               /\ v.troves[i].batch_manager \in DOMAIN v.batches
               /\ v.troves[i].interest_rate
                      = v.batches[v.troves[i].batch_manager].interest_rate
    /\ \A manager \in DOMAIN v.batches :
           /\ BatchMembers(v, manager)
                  = {i \in DOMAIN v.troves : v.troves[i].batch_manager = manager}
           /\ NoRepeats(v.batches[manager].troves)
           /\ v.batches[manager].total_debt
                  = SumTroves(v.troves, BatchMembers(v, manager), "debt")
           /\ v.batches[manager].total_collateral
                  = SumTroves(v.troves, BatchMembers(v, manager), "collateral")

TriedTroves == 1..(MaxTroves + 1)
TriedManagers == Managers \cup {"nobody"}

(* The clock readings at which the calls are tried: now, and one second    *)
(* and one year on.                                                        *)
LaterOn == {BoldProtocol_update_time(protocol, seconds) : seconds \in {0} \cup Elapses}

(* join_batch on v returns only for an existing trove and batch with the   *)
(* trove at MCR + BCR or above, and raises ValueError otherwise.           *)
JoinValidated(v, trove_id, batch_manager) ==
    LET r == BoldProtocol_join_batch(v, trove_id, batch_manager)
        valid == /\ trove_id \in DOMAIN v.troves
                 /\ batch_manager \in DOMAIN v.batches
                 /\ RGe(Trove_icr(BoldProtocol__apply_interest(v, trove_id).troves[trove_id],
                                  v.eth_price),
                        Rat(120, 100))
    IN  /\ Ok(r) => valid
        /\ ~valid => r.exc = "ValueError"

(* The batches are still consistent when the call that ends in r is over. *)
KeepsBatches(r) == BatchesConsistent([r EXCEPT !.exc = "none"])

(* C32: BoldProtocol.join_batch succeeds only for an existing trove and an *)
(* existing batch with trove ICR >= MCR + BCR (120%) and otherwise raises  *)
(* ValueError; after any sequence of join_batch and liquidate_trove calls  *)
(* a trove id is in the trove list of batch m exactly when the trove's     *)
(* batch_manager is m, the trove's interest_rate is the batch's rate, and  *)
(* each batch's total_debt and total_collateral equal the sums over its    *)
(* member troves.                                                          *)
C32_BatchMembership ==
    \A v \in LaterOn : \A trove_id \in TriedTroves :
        /\ \A batch_manager \in TriedManagers : JoinValidated(v, trove_id, batch_manager)
        /\ BatchesConsistent(protocol) =>
               /\ \A batch_manager \in TriedManagers :
                      KeepsBatches(BoldProtocol_join_batch(v, trove_id, batch_manager))
               /\ KeepsBatches(BoldProtocol_liquidate_trove(v, trove_id))

-----------------------------------------------------------------------------
PoolBalanced(pool) ==
    /\ pool.total_deposits = SumBalances(pool.depositors, DOMAIN pool.depositors)
    /\ \A addr \in DOMAIN pool.depositors : RGe(pool.depositors[addr], Zero)

TriedOffsets == PoolOffsets \cup {Zero, protocol.stability_pool.total_deposits}

(* Every balance falls by the depositor's share of the amount offset, and  *)
(* the amount offset is returned.                                          *)
OffsetInProportion(debt_to_offset) ==
    LET pool == protocol.stability_pool
        result == StabilityPool_offset_debt(protocol, debt_to_offset, One)
        after == result[1].stability_pool
    IN  /\ result[2] = RMin(debt_to_offset, pool.total_deposits)
        /\ DOMAIN after.depositors = DOMAIN pool.depositors
        /\ after.total_deposits = RSub(pool.total_deposits, result[2])
        /\ \A addr \in DOMAIN pool.depositors :
               after.depositors[addr] =
                   IF pool.total_deposits = Zero
                   THEN pool.depositors[addr]
                   ELSE RMulDiv(pool.depositors[addr], after.total_deposits,
                                pool.total_deposits)

(* C33: in the StabilityPool of vault_model.py, after any sequence of      *)
(* deposit, withdraw and offset_debt, the offsets of liquidations with     *)
(* several depositors included, total_deposits is the sum of the balances  *)
(* and no balance is negative; offset_debt lowers every balance in         *)
(* proportion to its share of the pool and returns                         *)
(* min(debt_to_offset, total_deposits).                                    *)
C33_PoolBalanced ==
    /\ PoolBalanced(protocol.stability_pool)
    /\ \A debt_to_offset \in TriedOffsets : OffsetInProportion(debt_to_offset)

(* A liquidation has just been offset against two unequal deposits. *)
C33_Witness ==
    /\ last.op = "BoldProtocol.update_eth_price"
    /\ protocol.next_trove_id = 2
    /\ protocol.troves = <<>>
    /\ DOMAIN protocol.stability_pool.depositors = Depositors
    /\ RGt(protocol.stability_pool.depositors["sp_user_1"],
           protocol.stability_pool.depositors["sp_user_2"])
    /\ RGt(protocol.stability_pool.depositors["sp_user_2"], Zero)

-----------------------------------------------------------------------------
PWithinScale(sp) ==
    /\ RGe(sp.P, RFloorDiv(I(P_PRECISION), I(SCALE_FACTOR)))
    /\ RLe(sp.P, I(P_PRECISION))

(* The numerator of offset after k multiplications by SCALE_FACTOR, over   *)
(* the total deposits.                                                     *)
RescaledP(debt_to_offset, k) ==
    RFloorDiv(RMul(RMul(stability_pool.P,
                        RSub(stability_pool.total_bold_deposits, debt_to_offset)),
                   I(Pow(SCALE_FACTOR, k))),
              stability_pool.total_bold_deposits)

OffsetRescales(debt_to_offset) ==
    LET r == offset(Machine, debt_to_offset, One)
        k == r.sp.current_scale - stability_pool.current_scale
    IN  Ok(r) =>
            /\ PWithinScale(r.sp)
            /\ k >= 0
            /\ k = 0 => RLe(r.sp.P, stability_pool.P)
            /\ r.sp.P = RescaledP(debt_to_offset, k)
            /\ \A j \in 0..(k - 1) :
                   RLt(RescaledP(debt_to_offset, j),
                       RFloorDiv(I(P_PRECISION), I(SCALE_FACTOR)))
            /\ \A scale \in (stability_pool.current_scale + 1)..r.sp.current_scale :
                   /\ r.sp.scale_to_S[scale] = Zero
                   /\ r.sp.scale_to_B[scale] = Zero

(* C34: after every successful offset P_PRECISION / SCALE_FACTOR <= P <=   *)
(* P_PRECISION; P does not increase while current_scale stays the same;    *)
(* current_scale never decreases and grows by exactly one for each         *)
(* multiplication of the numerator by SCALE_FACTOR; scale_to_S and         *)
(* scale_to_B of every newly entered scale start at 0.                     *)
C34_Rescaling ==
    /\ PWithinScale(stability_pool)
    /\ \A debt_to_offset \in RescalingDebts : OffsetRescales(debt_to_offset)

(* An offset has just moved the pool two or more scales up. *)
C34_Witness ==
    /\ last.op = "StabilityPool.offset"
    /\ last.exc = "none"
    /\ stability_pool.current_scale >= 2
    /\ calls = 3

-----------------------------------------------------------------------------
(* The batch's members that are Active or Zombie. *)
OpenMembers(batch_address) ==
    {trove_id \in DOMAIN troves :
         /\ troves[trove_id].interest_batch_manager = batch_address
         /\ _is_active_or_zombie(troves[trove_id].status)}

RECURSIVE SumShares(_)
SumShares(members) ==
    IF members = {} THEN Zero
    ELSE LET trove_id == CHOOSE x \in members : TRUE
         IN  RAdd(troves[trove_id].batch_debt_shares, SumShares(members \ {trove_id}))

SharesMatchMembers ==
    \A batch_address \in DOMAIN batches :
        batches[batch_address].total_debt_shares = SumShares(OpenMembers(batch_address))

(* A liquidated trove holds no shares and reads no debt. *)
LiquidatedHoldNothing ==
    \A trove_id \in DOMAIN troves :
        troves[trove_id].status = "CLOSED_BY_LIQUIDATION" =>
            /\ troves[trove_id].batch_debt_shares = Zero
            /\ _get_latest_trove_data(Machine, trove_id).entire_debt = Zero

(* C35: after every operation each batch's total_debt_shares is the sum of *)
(* batch_debt_shares over its member troves that are Active or Zombie, and *)
(* a trove closed by liquidation has had its shares taken out of the batch *)
(* and set to zero on the trove, so that it derives no debt from the       *)
(* batch any more.                                                         *)
C35_NoDanglingBatchShares ==
    /\ SharesMatchMembers
    /\ LiquidatedHoldNothing

-----------------------------------------------------------------------------
(* The machine a redemption loop hands to the redemption of one trove:     *)
(* the interest of the trove's batch has been updated.                     *)
BeforeLot(trove_id) ==
    IF _get_batch_manager(Machine, trove_id) # NoBatch
    THEN _update_batch_interest_prior_to_redemption(
             Machine, _get_batch_manager(Machine, trove_id))
    ELSE Machine

LotRecord(trove_id) ==
    [NoRedemption EXCEPT !.trove_id = trove_id,
                         !.batch_address = _get_batch_manager(Machine, trove_id),
                         !.is_zombie_trove = troves[trove_id].status = "ZOMBIE"]

(* r is the outcome of taking a lot from the trove in machine m. *)
LotAppliedExactly(m, r, trove_id) ==
    LET before == _get_latest_trove_data(m, trove_id)
        after == _get_latest_trove_data(r.m, trove_id)
    IN  (Ok(m) /\ Ok(r.m)) =>
            /\ after.entire_debt = RSub(before.entire_debt, r.sr.bold_lot)
            /\ after.entire_coll = RSub(before.entire_coll, r.sr.coll_lot)
            /\ r.m.troves[trove_id].stake = after.entire_coll
            /\ r.m.reward_snapshots[trove_id] =
                   [coll |-> r.m.tm.L_coll, bold_debt |-> r.m.tm.L_bold_debt]

WithDebt ==
    {trove_id \in DOMAIN troves :
         /\ _is_active_or_zombie(troves[trove_id].status)
         /\ RGt(troves[trove_id].debt, Zero)}

LotsOfRedeemCollateral ==
    \A trove_id \in WithDebt : \A max_bold_amount \in RedeemLots :
        Redeemable(Machine, trove_id) =>
        LotAppliedExactly(BeforeLot(trove_id),
            _redeem_collateral_from_trove(BeforeLot(trove_id), LotRecord(trove_id),
                max_bold_amount, price_feed, _get_redemption_rate(price_feed)),
            trove_id)

LotsOfUrgentRedemption ==
    \A trove_id \in WithDebt : \A max_bold_amount \in RedeemLots :
        trove_manager.shutdown_time # 0 =>
        LotAppliedExactly(BeforeLot(trove_id),
            _urgent_redeem_collateral_from_trove(BeforeLot(trove_id),
                [LotRecord(trove_id) EXCEPT !.is_zombie_trove = FALSE],
                _get_latest_trove_data(Machine, trove_id),
                max_bold_amount, price_feed),
            trove_id)

(* C36: when redeem_collateral or urgent_redemption takes bold_lot and     *)
(* coll_lot from a trove, standalone or in a batch, the trove's entire     *)
(* debt read by _get_latest_trove_data at the same instant is lower by     *)
(* exactly bold_lot and its entire collateral by exactly coll_lot, its     *)
(* stake is its new collateral and its reward snapshot is the current      *)
(* L_coll / L_bold_debt.                                                   *)
C36_LotAppliedExactly ==
    (WithinRange(Machine) /\ RGt(price_feed, Zero)) =>
        /\ LotsOfRedeemCollateral
        /\ LotsOfUrgentRedemption

-----------------------------------------------------------------------------
(* What a trove owes and holds through its batch: its entire debt and      *)
(* collateral without the gains of redistributions, which a liquidation    *)
(* may rightly add to every trove.                                         *)
BatchPosition(m, trove_id) ==
    LET trove == _get_latest_trove_data(m, trove_id)
    IN  <<RSub(trove.entire_debt, trove.redist_bold_debt_gain),
          RSub(trove.entire_coll, trove.redist_coll_gain)>>

(* The live troves that share a batch with trove_id. *)
BatchMates(trove_id) ==
    {other \in DOMAIN troves \ {trove_id} :
         /\ troves[trove_id].interest_batch_manager # NoBatch
         /\ troves[other].interest_batch_manager = troves[trove_id].interest_batch_manager
         /\ _is_active_or_zombie(troves[other].status)}

(* The call went from machine m to r without touching the batch mates of   *)
(* trove_id or adding to the batch's debt.                                 *)
BatchMatesUntouched(m, r, trove_id) ==
    (Ok(m) /\ Ok(r)) =>
        /\ \A other \in BatchMates(trove_id) :
               BatchPosition(r, other) = BatchPosition(m, other)
        /\ troves[trove_id].interest_batch_manager # NoBatch =>
               RLe(_get_latest_batch_data(r, troves[trove_id].interest_batch_manager)
                       .entire_debt_without_redistribution,
                   _get_latest_batch_data(m, troves[trove_id].interest_batch_manager)
                       .entire_debt_without_redistribution)

LiquidationSparesBatchMates ==
    \A trove_id \in DOMAIN troves :
        _is_active_or_zombie(troves[trove_id].status) =>
            BatchMatesUntouched(Machine, liquidate(Machine, trove_id), trove_id)

RedemptionSparesBatchMates ==
    \A trove_id \in WithDebt : \A max_bold_amount \in RedeemLots :
        Redeemable(Machine, trove_id) =>
            BatchMatesUntouched(BeforeLot(trove_id),
                _redeem_collateral_from_trove(BeforeLot(trove_id), LotRecord(trove_id),
                    max_bold_amount, price_feed, _get_redemption_rate(price_feed)).m,
                trove_id)

(* C37: liquidating or redeeming from one trove of a batch leaves the      *)
(* entire debt and entire collateral, read at the same instant, of every   *)
(* other trove of that batch unchanged, and the batch's latest data read   *)
(* right afterwards do not count the interest accrued before the operation *)
(* a second time.                                                          *)
C37_BatchMatesUntouched ==
    (WithinRange(Machine) /\ RGt(price_feed, Zero)) =>
        /\ LiquidationSparesBatchMates
        /\ RedemptionSparesBatchMates

-----------------------------------------------------------------------------
RECURSIVE SumCompounded(_)
SumCompounded(depositors) ==
    IF depositors = {} THEN Zero
    ELSE LET d == CHOOSE x \in depositors : TRUE
         IN  RAdd(get_compounded_bold_deposit(Machine, d), SumCompounded(depositors \ {d}))

RECURSIVE SumCollOwed(_)
SumCollOwed(depositors) ==
    IF depositors = {} THEN Zero
    ELSE LET d == CHOOSE x \in depositors : TRUE
         IN  RAdd(RAdd(get_depositor_coll_gain(Machine, d), stability_pool.stashed_coll[d]),
                  SumCollOwed(depositors \ {d}))

RECURSIVE SumYieldOwed(_)
SumYieldOwed(depositors) ==
    IF depositors = {} THEN Zero
    ELSE LET d == CHOOSE x \in depositors : TRUE
         IN  RAdd(get_depositor_yield_gain(Machine, d), SumYieldOwed(depositors \ {d}))

DepositsCovered ==
    RLe(SumCompounded(DOMAIN stability_pool.deposits), stability_pool.total_bold_deposits)

CollGainsCovered ==
    RLe(SumCollOwed(DOMAIN stability_pool.deposits), stability_pool.coll_balance)

YieldGainsCovered ==
    RLe(SumYieldOwed(DOMAIN stability_pool.deposits), stability_pool.yield_gains_owed)

PoolNotNegative ==
    /\ RGe(stability_pool.coll_balance, Zero)
    /\ RGe(stability_pool.total_bold_deposits, Zero)
    /\ RGe(stability_pool.yield_gains_owed, Zero)

(* C38: after any sequence of provide_to_sp, withdraw_from_sp,             *)
(* claim_all_coll_gains, offset and trigger_bold_rewards the compounded    *)
(* deposits of all depositors sum to at most total_bold_deposits, their    *)
(* pending collateral gains plus stashed collateral to at most             *)
(* coll_balance, their pending yield gains to at most yield_gains_owed,    *)
(* and none of the three balances is negative.                             *)
C38_PoolSolvent ==
    /\ DepositsCovered
    /\ CollGainsCovered
    /\ YieldGainsCovered
    /\ PoolNotNegative

-----------------------------------------------------------------------------
(* The pointer is 0 or names a Zombie trove that a redemption left with a  *)
(* debt above 0 and below the minimum.                                     *)
PointerOnZombie(m) ==
    \/ m.tm.last_zombie_trove_id = 0
    \/ /\ m.tm.last_zombie_trove_id \in DOMAIN m.troves
       /\ m.troves[m.tm.last_zombie_trove_id].status = "ZOMBIE"
       /\ RGt(m.troves[m.tm.last_zombie_trove_id].debt, Zero)
       /\ RLt(m.troves[m.tm.last_zombie_trove_id].debt, MinDebt)

(* A liquidation of the trove pointed at, at whatever price the feed is    *)
(* set to, clears the pointer.                                             *)
LiquidationClearsPointer ==
    \A new_price \in Prices \cup {I(500)} :
        LET r == liquidate([Machine EXCEPT !.price = new_price],
                           trove_manager.last_zombie_trove_id)
        IN  (trove_manager.last_zombie_trove_id # 0 /\ Ok(r)) =>
                r.tm.last_zombie_trove_id = 0

(* A redemption that takes the whole debt of the trove pointed at clears   *)
(* the pointer.                                                            *)
RedemptionClearsPointer ==
    \A redeemer \in Accounts : \A bold_amount \in RedeemLots :
        LET zombie == trove_manager.last_zombie_trove_id
            r == redeem_collateral(Machine, redeemer, bold_amount, 0)
        IN  (zombie # 0 /\ Ok(r) /\ zombie \in DOMAIN r.troves
             /\ r.troves[zombie].debt = Zero) => r.tm.last_zombie_trove_id # zombie

(* C39: in every reachable state last_zombie_trove_id is 0 or the id of a  *)
(* trove whose status is Zombie and whose debt is above 0 and below        *)
(* MIN_DEBT; liquidating that trove, or redeeming its debt to zero, resets *)
(* the pointer to 0.                                                       *)
C39_ZombiePointer ==
    /\ PointerOnZombie(Machine)
    /\ LiquidationClearsPointer
    /\ RedemptionClearsPointer

-----------------------------------------------------------------------------
TriedIterations == 0..MaxTroves

(* The ids of the troves a redemption took lots from, in order. *)
LotSequence(st) == [k \in DOMAIN st.lots |-> st.lots[k].trove_id]

(* The loop ended after at most one pass per listed trove and one for the  *)
(* trove pointed at.                                                       *)
LoopEnds(st) == st.iterations <= Len(trove_ids) + 1

IterationsCapped(st, max_iterations) ==
    max_iterations > 0 => st.iterations <= max_iterations

(* C40: redeem_collateral terminates for every trove list and amount, also *)
(* with max_iterations = 0 and when it starts from last_zombie_trove_id:   *)
(* no trove is processed twice in one call, and with max_iterations = n >  *)
(* 0 at most n troves are examined, the skipped ones included.             *)
C40_RedemptionTerminates ==
    RGt(price_feed, Zero) =>
        \A bold_amount \in RedeemLots : \A max_iterations \in TriedIterations :
            LET st == redeem_result(Machine, bold_amount, max_iterations)
            IN  /\ LoopEnds(st)
                /\ IterationsCapped(st, max_iterations)
                /\ NoRepeats(LotSequence(st))

=============================================================================
